---- MODULE Spec2Model ----
(***************************************************************************)
(* Conversion job engine of the LANraragi -> XTC bridge.                   *)
(*                                                                         *)
(* The model follows the server's job registry (job map, TTL reclaimer,    *)
(* takeJobArtifact), the conversion pipeline of convertArchiveToXtc as far *)
(* as it emits progress events and touches the job's workspace directory,  *)
(* and the two routes that take an artifact out of the registry.           *)
(*                                                                         *)
(* Scheduling is the one of a single-threaded event loop: every action is  *)
(* one callback run to its next suspension point.  A promise continuation  *)
(* that is already queued as a microtask runs before any timer, request or *)
(* I/O callback; MicrotaskPending states exactly that.                     *)
(***************************************************************************)
EXTENDS Integers, Sequences, FiniteSets, TLC

(***************************************************************************)
(* Bounds of the model.                                                    *)
(***************************************************************************)
\* Largest page list the archive server answers with.
MaxPages == 2
\* Frame events accepted per job (bounds convertedFrameVersion).
MaxFrames == 1
\* takeJobArtifact calls issued per job id by the two routes.
MaxTakes == 2
\* Worker limit handed to p-limit (config PAGE_FETCH_CONCURRENCY, 1..16).
Concurrency == 2

\* Job ids are opaque and never reused (randomUUID).
JobIds == {"job1"}
\* Messages of the exceptions the pipeline can raise.
ErrMsgs == {"errA", "errB"}

(***************************************************************************)
(* Progress is a fraction in the code.  It is kept here as an integer      *)
(* count of units of 1/(100 * PageUnit), where PageUnit is a multiple of   *)
(* every possible totalPages, so that 0.7 * completed / total is exact.    *)
(***************************************************************************)
RECURSIVE Fact(_)
Fact(n) == IF n <= 1 THEN 1 ELSE n * Fact(n - 1)

PageUnit == Fact(MaxPages + 1)
ProgressOne == 100 * PageUnit
Progress070 == 70 * PageUnit
Progress085 == 85 * PageUnit
Progress035 == 35 * PageUnit
Progress010 == 10 * PageUnit

Min(a, b) == IF a <= b THEN a ELSE b
Max(a, b) == IF a >= b THEN a ELSE b

\* An optional value: <<>> is null, <<v>> is the value v.
Null == <<>>
Some(v) == <<v>>

\* snapshot.message, kept symbolic: the template and its arguments.
Msg(kind, text, a, b) == [kind |-> kind, text |-> text, a |-> a, b |-> b]

(***************************************************************************)
(* The job registry record and the progress computation.                   *)
(***************************************************************************)
\* A variant that assigns the page fraction without keeping the maximum.
updateProgress_NoMax(snapshot) ==
    IF snapshot.status = "completed" THEN [snapshot EXCEPT !.progress = ProgressOne]
    ELSE IF snapshot.status = "failed" THEN snapshot
    ELSE IF snapshot.totalPages > 0 THEN
        LET pagePart == Min(Progress070,
                            (snapshot.completedPages * Progress070) \div snapshot.totalPages)
        IN  IF snapshot.stage = "cbz2xtc"
            THEN [snapshot EXCEPT !.progress = Max(pagePart, Progress085)]
            ELSE [snapshot EXCEPT !.progress = pagePart]
    ELSE IF snapshot.stage = "cbz2xtc"
        THEN [snapshot EXCEPT !.progress = Max(snapshot.progress, Progress085)]
    ELSE IF snapshot.stage = "archive-download"
        THEN [snapshot EXCEPT !.progress = Max(snapshot.progress, Progress035)]
    ELSE IF snapshot.status = "running"
        THEN [snapshot EXCEPT !.progress = Max(snapshot.progress, Progress010)]
    ELSE snapshot

\* A variant that applies the floor of the tool stage in every stage.
updateProgress_ToolFloorAlways(snapshot) ==
    IF snapshot.status = "completed" THEN [snapshot EXCEPT !.progress = ProgressOne]
    ELSE IF snapshot.status = "failed" THEN snapshot
    ELSE IF snapshot.totalPages > 0 THEN
        LET pagePart == Min(Progress070,
                            (snapshot.completedPages * Progress070) \div snapshot.totalPages)
        IN  [snapshot EXCEPT !.progress = Max(pagePart, Progress085)]
    ELSE IF snapshot.stage = "cbz2xtc"
        THEN [snapshot EXCEPT !.progress = Max(snapshot.progress, Progress085)]
    ELSE IF snapshot.stage = "archive-download"
        THEN [snapshot EXCEPT !.progress = Max(snapshot.progress, Progress035)]
    ELSE IF snapshot.status = "running"
        THEN [snapshot EXCEPT !.progress = Max(snapshot.progress, Progress010)]
    ELSE snapshot

\* A variant without the floor of the tool stage when the page count is known.
updateProgress_NoToolFloor(snapshot) ==
    IF snapshot.status = "completed" THEN [snapshot EXCEPT !.progress = ProgressOne]
    ELSE IF snapshot.status = "failed" THEN snapshot
    ELSE IF snapshot.totalPages > 0 THEN
        LET pagePart == Min(Progress070,
                            (snapshot.completedPages * Progress070) \div snapshot.totalPages)
        IN  [snapshot EXCEPT !.progress = Max(snapshot.progress, pagePart)]
    ELSE IF snapshot.stage = "cbz2xtc"
        THEN [snapshot EXCEPT !.progress = Max(snapshot.progress, Progress085)]
    ELSE IF snapshot.stage = "archive-download"
        THEN [snapshot EXCEPT !.progress = Max(snapshot.progress, Progress035)]
    ELSE IF snapshot.status = "running"
        THEN [snapshot EXCEPT !.progress = Max(snapshot.progress, Progress010)]
    ELSE snapshot

updateProgress(snapshot) ==
    IF snapshot.status = "completed" THEN [snapshot EXCEPT !.progress = ProgressOne]
    ELSE IF snapshot.status = "failed" THEN snapshot
    ELSE IF snapshot.totalPages > 0 THEN
        LET pagePart == Min(Progress070,
                            (snapshot.completedPages * Progress070) \div snapshot.totalPages)
        IN  IF snapshot.stage = "cbz2xtc"
            THEN [snapshot EXCEPT !.progress = Max(pagePart, Progress085)]
            ELSE [snapshot EXCEPT !.progress = Max(snapshot.progress, pagePart)]
    ELSE IF snapshot.stage = "cbz2xtc"
        THEN [snapshot EXCEPT !.progress = Max(snapshot.progress, Progress085)]
    ELSE IF snapshot.stage = "archive-download"
        THEN [snapshot EXCEPT !.progress = Max(snapshot.progress, Progress035)]
    ELSE IF snapshot.status = "running"
        THEN [snapshot EXCEPT !.progress = Max(snapshot.progress, Progress010)]
    ELSE snapshot

\* The progress events of ConversionProgressEvent.
StageEvent(stage) == [type |-> "stage", stage |-> stage]
\* A variant that reports the number of distinct pages as the total.
PagesDiscoveredEvent_DistinctTotal(labels) ==
    [type |-> "pages_discovered",
     total |-> Cardinality({labels[i] : i \in DOMAIN labels}), pages |-> labels]
PagesDiscoveredEvent(labels) == [type |-> "pages_discovered", total |-> Len(labels), pages |-> labels]
PageDoneEvent(index, total, page) == [type |-> "page_done", index |-> index, total |-> total, page |-> page]
CbzReadyEvent(total) == [type |-> "cbz_ready", total |-> total]
FrameEvent(label) == [type |-> "cbz2xtc_frame", frameLabel |-> label]
SummaryEvent == [type |-> "cbz2xtc_summary"]
DoneEvent == [type |-> "done"]

\* The fields applyProgressEvent assigns for each event type.
applyEventFields(s, event) ==
          IF event.type = "stage" THEN
              [s EXCEPT !.stage = event.stage, !.message = Msg("stage", event.stage, 0, 0)]
          ELSE IF event.type = "pages_discovered" THEN
              [s EXCEPT !.totalPages = event.total,
                        !.completedPages = 0,
                        !.pages = [i \in 1..Len(event.pages) |->
                                      [label |-> event.pages[i], done |-> FALSE]],
                        !.message = Msg("found", "", event.total, 0)]
          ELSE IF event.type = "page_done" THEN
              [s EXCEPT !.totalPages = event.total,
                        !.completedPages = Max(s.completedPages, event.index),
                        !.pages = IF Len(s.pages) >= event.index
                                  THEN [s.pages EXCEPT ![event.index] =
                                           [label |-> s.pages[event.index].label, done |-> TRUE]]
                                  ELSE s.pages,
                        !.message = Msg("downloaded", "", event.index, event.total)]
          ELSE IF event.type = "cbz_ready" THEN
              [s EXCEPT !.message = Msg("built", "", event.total, 0)]
          ELSE IF event.type = "cbz2xtc_frame" THEN
              [s EXCEPT !.convertedFrameVersion = s.convertedFrameVersion + 1,
                        !.message = Msg("frame", "", event.frameLabel, 0)]
          ELSE IF event.type = "cbz2xtc_summary" THEN
              [s EXCEPT !.message = Msg("summary", "", 0, 0)]
          ELSE IF event.type = "done" THEN
              [s EXCEPT !.status = "completed",
                        !.stage = "completed",
                        !.message = Msg("complete-bytes", "", 0, 0),
                        !.progress = ProgressOne,
                        !.downloadName = Some("name"),
                        !.fileSize = Some("size")]
          ELSE s

\* A variant that marks the job running again on every progress event.
applyProgressEvent_Reopens(record, event) ==
    [record EXCEPT !.snapshot =
        updateProgress([applyEventFields(record.snapshot, event) EXCEPT
                           !.status = IF event.type = "done" THEN @ ELSE "running"])]

applyProgressEvent(record, event) ==
    [record EXCEPT !.snapshot = updateProgress(applyEventFields(record.snapshot, event))]


(***************************************************************************)
(* State.                                                                  *)
(***************************************************************************)
VARIABLES
    jobs,       \* the registry: job id -> ConversionJobRecord, for the ids it holds
    conv,       \* per job: the locals of its convertArchiveToXtc / runCbz2xtc run
    jobDir,     \* per job: its workspace directory on disk
    ttl,        \* per job: the setTimeout handle of scheduleCleanup and its callback
    disposedBy, \* per job: who has invoked the artifact's dispose
    takes,      \* per job: the takeJobArtifact calls made for it and their results
    batch,      \* web client: the locals of one runSelectedAction call
    archives,   \* web client: per archive of the batch, its worker, job and upload
    uploadQueue,\* web client: the archives whose enqueued upload has not settled, in order
    uploadCall, \* device uploader: the locals and requests of one uploadFile call
    source,     \* input resolution: the archive, the settings and the configuration
    resolution, \* input resolution: the locals of one convertArchiveToXtc run
    poller,     \* frame preview: the workspace and the locals of one runCbz2xtc call
    delivery,   \* streamed delivery: one streamFileAsResponse call and its stream
    mapping,    \* flag mapping: one settingsToCbz2xtcArgs call
    uploadRoute,\* upload route: one POST /convert/jobs/:jobId/upload request
    pageFetch,  \* retry fetcher: one downloadPageWithRetry call
    uploadLane, \* web client and server: the clock of one upload-mode batch and its jobs
    assembly,   \* archive assembler: one createCbzFromPages call
    facets,     \* server: the archive-server connection, the metadata caches and their requests
    titleCache  \* catalog: the title-bucket cache and the requests filling it

serverVars == <<jobs, conv, jobDir, ttl, disposedBy, takes>>
batchVars == <<batch, archives, uploadQueue>>
resolveVars == <<source, resolution>>
\* What the steps of the job registry and of the pipeline leave alone.
outsideServer == <<batchVars, uploadCall, resolveVars, poller, delivery, mapping, uploadRoute, pageFetch, uploadLane, assembly, facets, titleCache>>
outsideBatch == <<serverVars, uploadCall, resolveVars, poller, delivery, mapping, uploadRoute, pageFetch, uploadLane, assembly, facets, titleCache>>
outsideUpload == <<serverVars, batchVars, resolveVars, poller, delivery, mapping, uploadRoute, pageFetch, uploadLane, assembly, facets, titleCache>>
outsideResolve == <<serverVars, batchVars, uploadCall, poller, delivery, mapping, uploadRoute, pageFetch, uploadLane, assembly, facets, titleCache>>
outsidePoller == <<serverVars, batchVars, uploadCall, resolveVars, delivery, mapping, uploadRoute, pageFetch, uploadLane, assembly, facets, titleCache>>
outsideDelivery == <<serverVars, batchVars, uploadCall, resolveVars, poller, mapping, uploadRoute, pageFetch, uploadLane, assembly, facets, titleCache>>
outsideMapping == <<serverVars, batchVars, uploadCall, resolveVars, poller, delivery, uploadRoute, pageFetch, uploadLane, assembly, facets, titleCache>>
outsideUploadRoute == <<serverVars, batchVars, uploadCall, resolveVars, poller, delivery, mapping, pageFetch, uploadLane, assembly, facets, titleCache>>
outsidePageFetch == <<serverVars, batchVars, uploadCall, resolveVars, poller, delivery, mapping, uploadRoute, uploadLane, assembly, facets, titleCache>>
outsideUploadLane == <<serverVars, batchVars, uploadCall, resolveVars, poller, delivery, mapping, uploadRoute, pageFetch, assembly, facets, titleCache>>
outsideAssembly == <<serverVars, batchVars, uploadCall, resolveVars, poller, delivery, mapping, uploadRoute, pageFetch, uploadLane, facets, titleCache>>
outsideFacets == <<serverVars, batchVars, uploadCall, resolveVars, poller, delivery, mapping, uploadRoute, pageFetch, uploadLane, assembly, titleCache>>
outsideTitleCache == <<serverVars, batchVars, uploadCall, resolveVars, poller, delivery, mapping, uploadRoute, pageFetch, uploadLane, assembly, facets>>
vars == <<serverVars, batchVars, uploadCall, resolveVars, poller, delivery, mapping, uploadRoute, pageFetch, uploadLane, assembly, facets, titleCache>>

\* Positions at which a job's code runs on without returning to the event loop.
SyncPcs == {"resolve", "direct", "returned", "threw"}
\* A variant in which requests and timers run ahead of queued continuations.
MicrotaskPending_Never == FALSE
MicrotaskPending == \E k \in JobIds : conv[k].pc \in SyncPcs
\* Awaits inside the try block of convertArchiveToXtc whose promise can reject.
TryAwaitPcs == {"metadata", "countPages", "fetchPages", "download", "writeArchive",
                "fallbackPages", "normalize", "finalize"}

\* A variant in which the download name is known from the start.
InitialSnapshot_NamedAtStart ==
    [status |-> "queued", stage |-> "queued", message |-> Msg("queued", "", 0, 0),
     progress |-> 0, totalPages |-> 0, completedPages |-> 0, pages |-> <<>>,
     convertedFrameVersion |-> 0, error |-> Null, downloadName |-> Some("name"),
     fileSize |-> Null]

InitialSnapshot ==
    [status |-> "queued", stage |-> "queued", message |-> Msg("queued", "", 0, 0),
     progress |-> 0, totalPages |-> 0, completedPages |-> 0, pages |-> <<>>,
     convertedFrameVersion |-> 0, error |-> Null, downloadName |-> Null,
     fileSize |-> Null]

InitialRecord == [snapshot |-> InitialSnapshot, artifact |-> FALSE, cleanupTimer |-> FALSE]

InitialConv ==
    [pc |-> "none", thrown |-> Null, cachedPages |-> -1, landscape |-> FALSE,
     coverPrep |-> FALSE, tasks |-> <<>>, proc |-> "none", stopped |-> FALSE,
     pollTimer |-> FALSE, poll |-> "idle"]

\* The web client before a batch run, the device uploader before a call and
\* the input resolution before a run.
NoBatch ==
    [phase |-> "idle", mode |-> "download", nextIndex |-> 0, workersLeft |-> 0,
     completed |-> 0, failed |-> 0]
NoUploadCall == [pc |-> "idle", uploads |-> 0, deletes |-> 0, first |-> Null, error |-> Null]
NoSource == [chosen |-> FALSE]
NoResolution == [pc |-> "idle", run |-> 0]
\* The other components before their call or request.
NoPoller == [pc |-> "idle"]
NoDelivery == [pc |-> "idle"]
NoMapping == [pc |-> "idle"]
NoUploadRoute == [pc |-> "idle"]
NoPageFetch == [pc |-> "idle"]
NoUploadLane == [pc |-> "idle"]
NoAssembly == [pc |-> "idle"]
NoFacets == [pc |-> "idle"]
NoTitleCache == [pc |-> "idle"]

Init ==
    /\ jobs = [x \in {} |-> InitialRecord]
    /\ conv = [j \in JobIds |-> InitialConv]
    /\ jobDir = [j \in JobIds |-> "none"]
    /\ ttl = [j \in JobIds |-> "none"]
    /\ disposedBy = [j \in JobIds |-> {}]
    /\ takes = [j \in JobIds |-> [calls |-> 0, delivered |-> 0, last |-> "none",
                                   holder |-> "none"]]
    /\ batch = NoBatch
    /\ archives = <<>>
    /\ uploadQueue = <<>>
    /\ uploadCall = NoUploadCall
    /\ source = NoSource
    /\ resolution = NoResolution
    /\ poller = NoPoller
    /\ delivery = NoDelivery
    /\ mapping = NoMapping
    /\ uploadRoute = NoUploadRoute
    /\ pageFetch = NoPageFetch
    /\ uploadLane = NoUploadLane
    /\ assembly = NoAssembly
    /\ facets = NoFacets
    /\ titleCache = NoTitleCache

\* Map operations of the registry.
MapSet(m, k, v) == [x \in (DOMAIN m) \cup {k} |-> IF x = k THEN v ELSE m[x]]
MapDelete(m, k) == [x \in (DOMAIN m) \ {k} |-> m[x]]

\* onProgress of startConversionJob: events of a job the registry no longer
\* holds are dropped.
RECURSIVE ApplyAll(_, _)
ApplyAll(record, events) ==
    IF events = <<>> THEN record
    ELSE ApplyAll(applyProgressEvent(record, Head(events)), Tail(events))

onProgress(j, events) ==
    IF j \in DOMAIN jobs THEN [jobs EXCEPT ![j] = ApplyAll(@, events)] ELSE jobs

(***************************************************************************)
(* scheduleCleanup: (re)arms the job's TTL timer.                          *)
(***************************************************************************)
scheduleCleanup(registry, j) ==
    IF j \in DOMAIN registry
    THEN [registry EXCEPT ![j].cleanupTimer = TRUE]
    ELSE registry

(***************************************************************************)
(* startConversionJob: registers the job and runs the body of its async    *)
(* function up to the first suspension, which is inside                    *)
(* convertArchiveToXtc (the access check of the tool path).                *)
(***************************************************************************)
StartJob(j) ==
    /\ ~MicrotaskPending
    /\ conv[j].pc = "none"
    /\ \E landscape \in BOOLEAN :
         conv' = [conv EXCEPT ![j].pc = "preflight", ![j].landscape = landscape]
    /\ LET queued == InitialRecord
           running == [queued EXCEPT !.snapshot =
                          updateProgress([queued.snapshot EXCEPT
                              !.status = "running",
                              !.stage = "starting",
                              !.message = Msg("starting", "", 0, 0)])]
       IN  jobs' = MapSet(jobs, j, running)
    /\ UNCHANGED <<jobDir, ttl, disposedBy, takes>>
    /\ UNCHANGED outsideServer

\* ensureFileExists / mkdir / mkdtemp succeed: the workspace exists and the
\* metadata request is under way.
PreflightOk(j) ==
    /\ ~MicrotaskPending
    /\ conv[j].pc = "preflight"
    /\ jobDir' = [jobDir EXCEPT ![j] = "present"]
    /\ jobs' = onProgress(j, <<StageEvent("metadata")>>)
    /\ conv' = [conv EXCEPT ![j].pc = "metadata"]
    /\ UNCHANGED <<ttl, disposedBy, takes>>
    /\ UNCHANGED outsideServer

\* A required tool path is missing: the exception leaves convertArchiveToXtc
\* before the workspace is created and before its try block.
PreflightFail(j) ==
    /\ ~MicrotaskPending
    /\ conv[j].pc = "preflight"
    /\ \E e \in ErrMsgs : conv' = [conv EXCEPT ![j].pc = "threw", ![j].thrown = Some(e)]
    /\ UNCHANGED <<jobs, jobDir, ttl, disposedBy, takes>>
    /\ UNCHANGED outsideServer

\* Any awaited step inside the try block rejects: the catch clause starts
\* the removal of the workspace and waits for it.
PipelineThrows(j) ==
    /\ ~MicrotaskPending
    /\ conv[j].pc \in TryAwaitPcs
    /\ \E e \in ErrMsgs : conv' = [conv EXCEPT ![j].pc = "cleanup", ![j].thrown = Some(e)]
    /\ UNCHANGED <<jobs, jobDir, ttl, disposedBy, takes>>
    /\ UNCHANGED outsideServer

\* The removal of the workspace has finished; the catch clause rethrows.
CleanupSettle(j) ==
    /\ ~MicrotaskPending
    /\ conv[j].pc = "cleanup"
    /\ jobDir' = [jobDir EXCEPT ![j] = "removed"]
    /\ conv' = [conv EXCEPT ![j].pc = "threw"]
    /\ UNCHANGED <<jobs, ttl, disposedBy, takes>>
    /\ UNCHANGED outsideServer

\* A variant of the catch clause that does not schedule the cleanup.
JobFail_NoCleanup(j) ==
    /\ conv[j].pc = "threw"
    /\ conv' = [conv EXCEPT ![j].pc = "settled"]
    /\ IF j \in DOMAIN jobs
       THEN jobs' = [jobs EXCEPT ![j].snapshot.status = "failed",
                                 ![j].snapshot.stage = "failed",
                                 ![j].snapshot.error = conv[j].thrown,
                                 ![j].snapshot.message = Msg("error", conv[j].thrown[1], 0, 0)]
       ELSE UNCHANGED jobs
    /\ UNCHANGED <<jobDir, ttl, disposedBy, takes>>
    /\ UNCHANGED outsideServer

\* The catch clause of startConversionJob.
JobFail(j) ==
    /\ conv[j].pc = "threw"
    /\ conv' = [conv EXCEPT ![j].pc = "settled"]
    /\ IF j \in DOMAIN jobs
       THEN /\ jobs' = scheduleCleanup(
                  [jobs EXCEPT ![j].snapshot.status = "failed",
                               ![j].snapshot.stage = "failed",
                               ![j].snapshot.error = conv[j].thrown,
                               ![j].snapshot.message = Msg("error", conv[j].thrown[1], 0, 0)],
                  j)
            /\ ttl' = [ttl EXCEPT ![j] = "armed"]
       ELSE UNCHANGED <<jobs, ttl>>
    /\ UNCHANGED <<jobDir, disposedBy, takes>>
    /\ UNCHANGED outsideServer


(***************************************************************************)
(* Input resolution of convertArchiveToXtc.  What the archive server       *)
(* answers (page lists, content types, payloads) and the configuration are *)
(* chosen freely at the step that reads them.                              *)
(***************************************************************************)
\* Labels of the list preparePagesForBuild returns for n pages: in landscape
\* orientation the first page is put in front once more.
PageLabels(n) == [i \in 1..n |-> i]
preparePagesForBuild(landscape, n) ==
    IF (~landscape) \/ n = 0 THEN PageLabels(n) ELSE <<1>> \o PageLabels(n)

\* The stage event of the first cover preparation of a job.
CoverPrepEvents(j, n) ==
    IF conv[j].landscape /\ n > 0 /\ ~conv[j].coverPrep
    THEN <<StageEvent("cover-prep")>> ELSE <<>>

\* createCbzFromPages up to its Promise.all: one p-limit task per page.
StartAssembly(c, landscape, n) ==
    [c EXCEPT !.pc = "assemble",
              !.coverPrep = c.coverPrep \/ (landscape /\ n > 0),
              !.tasks = [i \in 1..Len(preparePagesForBuild(landscape, n)) |-> "queued"]]

\* The metadata arrived and the settings are resolved; with split mode
\* nosplit and no page count in the metadata the page list is fetched to
\* count the pages.
MetadataOk(j) ==
    /\ ~MicrotaskPending
    /\ conv[j].pc = "metadata"
    /\ \E countNeeded \in BOOLEAN :
         conv' = [conv EXCEPT ![j].pc = IF countNeeded THEN "countPages" ELSE "resolve"]
    /\ UNCHANGED <<jobs, jobDir, ttl, disposedBy, takes>>
    /\ UNCHANGED outsideServer

CountPagesOk(j) ==
    /\ ~MicrotaskPending
    /\ conv[j].pc = "countPages"
    /\ \E n \in 0..MaxPages :
         conv' = [conv EXCEPT ![j].pc = "resolve", ![j].cachedPages = n]
    /\ UNCHANGED <<jobs, jobDir, ttl, disposedBy, takes>>
    /\ UNCHANGED outsideServer

\* USE_LRR_PAGE_EXTRACTION is set: the page list is requested.
ResolveExtraction(j) ==
    /\ conv[j].pc = "resolve"
    /\ jobs' = onProgress(j, <<StageEvent("fetching-pages")>>)
    /\ conv' = [conv EXCEPT ![j].pc = "fetchPages"]
    /\ UNCHANGED <<jobDir, ttl, disposedBy, takes>>
    /\ UNCHANGED outsideServer

\* USE_LRR_PAGE_EXTRACTION is not set.
ResolveNoExtraction(j) ==
    /\ conv[j].pc = "resolve"
    /\ conv' = [conv EXCEPT ![j].pc = "direct"]
    /\ UNCHANGED <<jobs, jobDir, ttl, disposedBy, takes>>
    /\ UNCHANGED outsideServer

\* The page list of the extraction step arrived: more than one page for the
\* build starts the assembly, otherwise resolution goes on.
FetchPagesOk(j) ==
    /\ ~MicrotaskPending
    /\ conv[j].pc = "fetchPages"
    /\ \E n \in 0..MaxPages :
         LET labels == preparePagesForBuild(conv[j].landscape, n)
             c == [conv[j] EXCEPT !.cachedPages = n,
                                  !.coverPrep = @ \/ (conv[j].landscape /\ n > 0)]
         IN  /\ jobs' = onProgress(j,
                    CoverPrepEvents(j, n) \o <<PagesDiscoveredEvent(labels)>>
                    \o (IF Len(labels) > 1 THEN <<StageEvent("building-input")>> ELSE <<>>))
             /\ conv' = [conv EXCEPT ![j] =
                    IF Len(labels) > 1
                    THEN StartAssembly(c, conv[j].landscape, n)
                    ELSE [c EXCEPT !.pc = "direct"]]
    /\ UNCHANGED <<jobDir, ttl, disposedBy, takes>>
    /\ UNCHANGED outsideServer

\* The page-assembly fallback with a known page list: no page is fatal.
FallbackWith(j, n) ==
    IF n = 0
    THEN /\ \E e \in ErrMsgs :
              conv' = [conv EXCEPT ![j].pc = "cleanup", ![j].thrown = Some(e),
                                   ![j].cachedPages = n]
         /\ UNCHANGED jobs
    ELSE /\ jobs' = onProgress(j, CoverPrepEvents(j, n))
         /\ conv' = [conv EXCEPT ![j] =
                StartAssembly([conv[j] EXCEPT !.cachedPages = n], conv[j].landscape, n)]

\* No container yet and the source extension is cbz or zip: raw download.
DirectDownload(j) ==
    /\ conv[j].pc = "direct"
    /\ conv' = [conv EXCEPT ![j].pc = "download"]
    /\ UNCHANGED <<jobs, jobDir, ttl, disposedBy, takes>>
    /\ UNCHANGED outsideServer

\* No container yet and the source extension is not directly downloadable.
NonCbzFallback(j) ==
    /\ conv[j].pc = "direct"
    /\ IF conv[j].cachedPages < 0
       THEN /\ conv' = [conv EXCEPT ![j].pc = "fallbackPages"]
            /\ UNCHANGED jobs
       ELSE FallbackWith(j, conv[j].cachedPages)
    /\ UNCHANGED <<jobDir, ttl, disposedBy, takes>>
    /\ UNCHANGED outsideServer

\* The raw download answered.  A content type of an image, of HTML or of
\* JSON sends resolution to the page assembly; anything else is written to
\* the container path.
DownloadOk(j) ==
    /\ ~MicrotaskPending
    /\ conv[j].pc = "download"
    /\ \E looksLikeCoverOrNonArchive \in BOOLEAN :
         IF looksLikeCoverOrNonArchive
         THEN IF conv[j].cachedPages < 0
              THEN /\ conv' = [conv EXCEPT ![j].pc = "fallbackPages"]
                   /\ UNCHANGED jobs
              ELSE FallbackWith(j, conv[j].cachedPages)
         ELSE /\ jobs' = onProgress(j, <<StageEvent("archive-download")>>)
              /\ conv' = [conv EXCEPT ![j].pc = "writeArchive"]
    /\ UNCHANGED <<jobDir, ttl, disposedBy, takes>>
    /\ UNCHANGED outsideServer

\* The page list of a fallback arrived.
FallbackPagesOk(j) ==
    /\ ~MicrotaskPending
    /\ conv[j].pc = "fallbackPages"
    /\ \E n \in 0..MaxPages : FallbackWith(j, n)
    /\ UNCHANGED <<jobDir, ttl, disposedBy, takes>>
    /\ UNCHANGED outsideServer


(***************************************************************************)
(* Archive assembler: createCbzFromPages.                                  *)
(***************************************************************************)
TaskIds(j) == DOMAIN conv[j].tasks
ActiveTasks(j) == {i \in TaskIds(j) : conv[j].tasks[i] \in {"fetching", "open", "writing"}}
QueuedTasks(j) == {i \in TaskIds(j) : conv[j].tasks[i] = "queued"}

\* p-limit starts the queued tasks in order, at most Concurrency at a time,
\* and goes on doing so after one of them has rejected.
PageStart(j, i) ==
    /\ ~MicrotaskPending
    /\ i \in QueuedTasks(j)
    /\ \A k \in QueuedTasks(j) : i <= k
    /\ Cardinality(ActiveTasks(j)) < Concurrency
    /\ conv' = [conv EXCEPT ![j].tasks[i] = "fetching"]
    /\ UNCHANGED <<jobs, jobDir, ttl, disposedBy, takes>>
    /\ UNCHANGED outsideServer

\* downloadPageWithRetry returned a response; the page file is being opened.
PageFetched(j, i) ==
    /\ ~MicrotaskPending
    /\ i \in TaskIds(j)
    /\ conv[j].tasks[i] = "fetching"
    /\ conv' = [conv EXCEPT ![j].tasks[i] = "open"]
    /\ UNCHANGED <<jobs, jobDir, ttl, disposedBy, takes>>
    /\ UNCHANGED outsideServer

\* A task rejects.  The first rejection rejects the Promise.all the
\* pipeline waits on; the other tasks are left running.
TaskRejects(j, i) ==
    \E e \in ErrMsgs :
      conv' = [conv EXCEPT ![j] =
          IF conv[j].pc = "assemble"
          THEN [@ EXCEPT !.tasks[i] = "dead", !.pc = "cleanup", !.thrown = Some(e)]
          ELSE [@ EXCEPT !.tasks[i] = "dead"]]

\* downloadPageWithRetry gave up.
PageFetchFail(j, i) ==
    /\ ~MicrotaskPending
    /\ i \in TaskIds(j)
    /\ conv[j].tasks[i] = "fetching"
    /\ TaskRejects(j, i)
    /\ UNCHANGED <<jobs, jobDir, ttl, disposedBy, takes>>
    /\ UNCHANGED outsideServer

\* open(filePath, "w") in writeResponseToFile: it creates the page file in
\* the workspace, or fails when the directory is gone.
PageOpen(j, i) ==
    /\ ~MicrotaskPending
    /\ i \in TaskIds(j)
    /\ conv[j].tasks[i] = "open"
    /\ IF jobDir[j] = "present"
       THEN conv' = [conv EXCEPT ![j].tasks[i] = "writing"]
       ELSE TaskRejects(j, i)
    /\ UNCHANGED <<jobs, jobDir, ttl, disposedBy, takes>>
    /\ UNCHANGED outsideServer

\* The body has been written through the open handle: page_done.
PageWritten(j, i) ==
    /\ ~MicrotaskPending
    /\ i \in TaskIds(j)
    /\ conv[j].tasks[i] = "writing"
    /\ conv' = [conv EXCEPT ![j].tasks[i] = "done"]
    /\ jobs' = onProgress(j,
           <<PageDoneEvent(i, Len(conv[j].tasks),
                           preparePagesForBuild(conv[j].landscape, conv[j].cachedPages)[i])>>)
    /\ UNCHANGED <<jobDir, ttl, disposedBy, takes>>
    /\ UNCHANGED outsideServer

\* Every task resolved: the images are normalised and packed.
AssembleDone(j) ==
    /\ ~MicrotaskPending
    /\ conv[j].pc = "assemble"
    /\ \A i \in TaskIds(j) : conv[j].tasks[i] = "done"
    /\ conv' = [conv EXCEPT ![j].pc = "normalize"]
    /\ UNCHANGED <<jobs, jobDir, ttl, disposedBy, takes>>
    /\ UNCHANGED outsideServer

(***************************************************************************)
(* External tool supervisor: runCbz2xtc.                                   *)
(***************************************************************************)
\* The stage event, the spawn, the interval timer and the first emitFrame
\* call, whose mkdir of the preview directory is issued at once.
SpawnTool(c) ==
    [c EXCEPT !.pc = "tool", !.proc = "running", !.pollTimer = TRUE, !.poll = "mkdir"]

\* The container is packed with as many entries as pages: cbz_ready, then
\* the tool is started.
NormalizeOk(j) ==
    /\ ~MicrotaskPending
    /\ conv[j].pc = "normalize"
    /\ jobs' = onProgress(j, <<CbzReadyEvent(Len(conv[j].tasks)), StageEvent("cbz2xtc")>>)
    /\ conv' = [conv EXCEPT ![j] = SpawnTool(@)]
    /\ UNCHANGED <<jobDir, ttl, disposedBy, takes>>
    /\ UNCHANGED outsideServer

\* The raw download is on disk and its signature was read: a zip goes to
\* the tool, anything else is deleted and replaced by the page assembly.
WriteArchiveOk(j) ==
    /\ ~MicrotaskPending
    /\ conv[j].pc = "writeArchive"
    /\ \E isZipArchive \in BOOLEAN :
         IF isZipArchive
         THEN /\ jobs' = onProgress(j, <<StageEvent("cbz2xtc")>>)
              /\ conv' = [conv EXCEPT ![j] = SpawnTool(@)]
         ELSE IF conv[j].cachedPages < 0
              THEN /\ conv' = [conv EXCEPT ![j].pc = "fallbackPages"]
                   /\ UNCHANGED jobs
              ELSE FallbackWith(j, conv[j].cachedPages)
    /\ UNCHANGED <<jobDir, ttl, disposedBy, takes>>
    /\ UNCHANGED outsideServer

\* The interval timer calls emitFrame, which starts a poll unless one is
\* running or the supervisor has stopped.
FrameTick(j) ==
    /\ ~MicrotaskPending
    /\ conv[j].pollTimer
    /\ conv[j].poll = "idle"
    /\ ~conv[j].stopped
    /\ conv' = [conv EXCEPT ![j].poll = "mkdir"]
    /\ UNCHANGED <<jobs, jobDir, ttl, disposedBy, takes>>
    /\ UNCHANGED outsideServer

\* mkdir(previewDir, recursive) takes effect: it creates the preview
\* directory together with every missing parent.
FrameMkdir(j) ==
    /\ ~MicrotaskPending
    /\ conv[j].poll = "mkdir"
    /\ jobDir' = [jobDir EXCEPT ![j] = "present"]
    /\ conv' = [conv EXCEPT ![j].poll = "scan"]
    /\ UNCHANGED <<jobs, ttl, disposedBy, takes>>
    /\ UNCHANGED outsideServer

\* listConvertedFrames and the search for a new, old enough, complete frame.
FrameScan(j) ==
    /\ ~MicrotaskPending
    /\ conv[j].poll = "scan"
    /\ \E found \in BOOLEAN :
         conv' = [conv EXCEPT ![j].poll =
                     IF found /\ jobDir[j] = "present" THEN "copy" ELSE "idle"]
    /\ UNCHANGED <<jobs, jobDir, ttl, disposedBy, takes>>
    /\ UNCHANGED outsideServer

\* copyFile into the preview directory; it fails when the directory is gone.
FrameCopy(j) ==
    /\ ~MicrotaskPending
    /\ conv[j].poll = "copy"
    /\ conv' = [conv EXCEPT ![j].poll = IF jobDir[j] = "present" THEN "verify" ELSE "idle"]
    /\ UNCHANGED <<jobs, jobDir, ttl, disposedBy, takes>>
    /\ UNCHANGED outsideServer

\* The copy was read back through its open handle: a complete copy is
\* emitted as a frame event, an incomplete one is dropped.
FrameVerify(j) ==
    /\ ~MicrotaskPending
    /\ conv[j].poll = "verify"
    /\ conv' = [conv EXCEPT ![j].poll = "idle"]
    /\ \E complete \in BOOLEAN :
         IF complete /\ (j \in DOMAIN jobs => jobs[j].snapshot.convertedFrameVersion < MaxFrames)
         THEN jobs' = onProgress(j, <<FrameEvent(1)>>)
         ELSE UNCHANGED jobs
    /\ UNCHANGED <<jobDir, ttl, disposedBy, takes>>
    /\ UNCHANGED outsideServer

\* The tool exited with status 0: the poll timer is stopped, the summary
\* (if any) is reported and the output file is looked up.
ProcCloseOk(j) ==
    /\ ~MicrotaskPending
    /\ conv[j].pc = "tool"
    /\ conv[j].proc = "running"
    /\ \E summary \in BOOLEAN :
         jobs' = onProgress(j, IF summary THEN <<SummaryEvent>> ELSE <<>>)
    /\ conv' = [conv EXCEPT ![j].pc = "finalize", ![j].proc = "closed",
                            ![j].stopped = TRUE, ![j].pollTimer = FALSE]
    /\ UNCHANGED <<jobDir, ttl, disposedBy, takes>>
    /\ UNCHANGED outsideServer

\* The tool exited with a nonzero status.
ProcCloseFail(j) ==
    /\ ~MicrotaskPending
    /\ conv[j].pc = "tool"
    /\ conv[j].proc = "running"
    /\ \E e \in ErrMsgs :
         conv' = [conv EXCEPT ![j].pc = "cleanup", ![j].thrown = Some(e),
                              ![j].proc = "closed", ![j].stopped = TRUE,
                              ![j].pollTimer = FALSE]
    /\ UNCHANGED <<jobs, jobDir, ttl, disposedBy, takes>>
    /\ UNCHANGED outsideServer

\* The 'error' event of the child process: the promise is rejected, the
\* poll timer keeps running.
ProcError(j) ==
    /\ ~MicrotaskPending
    /\ conv[j].pc = "tool"
    /\ conv[j].proc = "running"
    /\ \E e \in ErrMsgs :
         conv' = [conv EXCEPT ![j].pc = "cleanup", ![j].thrown = Some(e),
                              ![j].proc = "errored"]
    /\ UNCHANGED <<jobs, jobDir, ttl, disposedBy, takes>>
    /\ UNCHANGED outsideServer

\* The 'close' event that follows an 'error' event.
ProcCloseAfterError(j) ==
    /\ ~MicrotaskPending
    /\ conv[j].proc = "errored"
    /\ conv' = [conv EXCEPT ![j].proc = "closed", ![j].stopped = TRUE,
                            ![j].pollTimer = FALSE]
    /\ UNCHANGED <<jobs, jobDir, ttl, disposedBy, takes>>
    /\ UNCHANGED outsideServer

\* The output file was found, moved to the delivery directory and sized:
\* the done event, then convertArchiveToXtc returns the artifact.
FinalizeOk(j) ==
    /\ ~MicrotaskPending
    /\ conv[j].pc = "finalize"
    /\ jobs' = onProgress(j, <<DoneEvent>>)
    /\ conv' = [conv EXCEPT ![j].pc = "returned"]
    /\ UNCHANGED <<jobDir, ttl, disposedBy, takes>>
    /\ UNCHANGED outsideServer

\* The continuation of startConversionJob after the pipeline returned.
JobAttach(j) ==
    /\ conv[j].pc = "returned"
    /\ conv' = [conv EXCEPT ![j].pc = "settled"]
    /\ IF j \in DOMAIN jobs
       THEN /\ jobs' = scheduleCleanup(
                  [jobs EXCEPT ![j].artifact = TRUE,
                               ![j].snapshot.status = "completed",
                               ![j].snapshot.stage = "completed",
                               ![j].snapshot.message = Msg("ready", "", 0, 0),
                               ![j].snapshot.progress = ProgressOne,
                               ![j].snapshot.downloadName = Some("name"),
                               ![j].snapshot.fileSize = Some("size")],
                  j)
            /\ ttl' = [ttl EXCEPT ![j] = "armed"]
            /\ UNCHANGED <<jobDir, disposedBy>>
       ELSE /\ disposedBy' = [disposedBy EXCEPT ![j] = @ \cup {"job"}]
            /\ jobDir' = [jobDir EXCEPT ![j] = "removed"]
            /\ UNCHANGED <<jobs, ttl>>
    /\ UNCHANGED takes
    /\ UNCHANGED outsideServer


(***************************************************************************)
(* TTL reclaimer: the timer callback of scheduleCleanup.                   *)
(***************************************************************************)
\* The timer fires.  Without a record the callback returns; without an
\* artifact it deletes the record; with an artifact it invokes dispose and
\* waits for it, the record still in the registry.
TtlFire(j) ==
    /\ ~MicrotaskPending
    /\ ttl[j] = "armed"
    /\ IF j \notin DOMAIN jobs
       THEN /\ ttl' = [ttl EXCEPT ![j] = "finished"]
            /\ UNCHANGED <<jobs, disposedBy>>
       ELSE IF ~jobs[j].artifact
       THEN /\ ttl' = [ttl EXCEPT ![j] = "finished"]
            /\ jobs' = MapDelete(jobs, j)
            /\ UNCHANGED disposedBy
       ELSE /\ ttl' = [ttl EXCEPT ![j] = "disposing"]
            /\ disposedBy' = [disposedBy EXCEPT ![j] = @ \cup {"ttl"}]
            /\ UNCHANGED jobs
    /\ UNCHANGED <<conv, jobDir, takes>>
    /\ UNCHANGED outsideServer

\* A variant that deletes the record only after a successful dispose.
TtlDisposeSettle_NoFinally(j) ==
    /\ ~MicrotaskPending
    /\ ttl[j] = "disposing"
    /\ \E removed \in BOOLEAN :
         /\ jobDir' = [jobDir EXCEPT ![j] = IF removed THEN "removed" ELSE @]
         /\ jobs' = IF removed /\ j \in DOMAIN jobs THEN MapDelete(jobs, j) ELSE jobs
         /\ ttl' = [ttl EXCEPT ![j] = IF removed THEN "finished" ELSE "finished-error"]
    /\ UNCHANGED <<conv, disposedBy, takes>>
    /\ UNCHANGED outsideServer

\* dispose settled, with or without an error (which is logged): the record
\* is deleted.
TtlDisposeSettle(j) ==
    /\ ~MicrotaskPending
    /\ ttl[j] = "disposing"
    /\ \E removed \in BOOLEAN :
         /\ jobDir' = [jobDir EXCEPT ![j] = IF removed THEN "removed" ELSE @]
         /\ ttl' = [ttl EXCEPT ![j] = IF removed THEN "finished" ELSE "finished-error"]
    /\ jobs' = IF j \in DOMAIN jobs THEN MapDelete(jobs, j) ELSE jobs
    /\ UNCHANGED <<conv, disposedBy, takes>>
    /\ UNCHANGED outsideServer

(***************************************************************************)
(* takeJobArtifact, called by the download route and by the upload route.  *)
(***************************************************************************)
Routes == {"download", "upload"}

\* A variant of the guard that only looks for the record.
Available_RecordOnly(j) == j \in DOMAIN jobs

\* The guard of takeJobArtifact.
Available(j) ==
    /\ j \in DOMAIN jobs
    /\ jobs[j].snapshot.status = "completed"
    /\ jobs[j].artifact

\* What a caller of takeJobArtifact that got no artifact could have seen.
SeenBy(j) == IF j \in DOMAIN jobs THEN jobs[j].snapshot.status ELSE "unknown"

\* A variant of the handoff that leaves the record as it is.
handOff_KeepsArtifact(registry, j) == registry

\* A variant of the handoff that detaches the artifact and keeps the record.
handOff_NoDelete(registry, j) ==
    [registry EXCEPT ![j].artifact = FALSE, ![j].cleanupTimer = FALSE]

\* The registry after takeJobArtifact handed the artifact out.
handOff(registry, j) == MapDelete(registry, j)

TakeJobArtifact(j, via) ==
    /\ ~MicrotaskPending
    /\ takes[j].calls < MaxTakes
    /\ IF Available(j)
       THEN /\ ttl' = [ttl EXCEPT ![j] = IF @ = "armed" THEN "cancelled" ELSE @]
            /\ jobs' = handOff(jobs, j)
            /\ takes' = [takes EXCEPT ![j].calls = @ + 1, ![j].delivered = @ + 1,
                                      ![j].last = "artifact", ![j].holder = via]
       ELSE /\ takes' = [takes EXCEPT ![j].calls = @ + 1, ![j].last = SeenBy(j)]
            /\ UNCHANGED <<jobs, ttl>>
    /\ UNCHANGED <<conv, jobDir, disposedBy>>
    /\ UNCHANGED outsideServer

\* The route that took the artifact is through with it and disposes it.
RouteDispose(j) ==
    /\ ~MicrotaskPending
    /\ takes[j].holder \in Routes
    /\ disposedBy' = [disposedBy EXCEPT ![j] = @ \cup {takes[j].holder}]
    /\ jobDir' = [jobDir EXCEPT ![j] = "removed"]
    /\ takes' = [takes EXCEPT ![j].holder = "released"]
    /\ UNCHANGED <<jobs, conv, ttl>>
    /\ UNCHANGED outsideServer

(***************************************************************************)
(* Specification.                                                          *)
(***************************************************************************)
Next ==
    \E j \in JobIds :
        \/ StartJob(j)
        \/ PreflightOk(j)
        \/ PreflightFail(j)
        \/ PipelineThrows(j)
        \/ CleanupSettle(j)
        \/ JobFail(j)
        \/ MetadataOk(j)
        \/ CountPagesOk(j)
        \/ ResolveExtraction(j)
        \/ ResolveNoExtraction(j)
        \/ FetchPagesOk(j)
        \/ DirectDownload(j)
        \/ NonCbzFallback(j)
        \/ DownloadOk(j)
        \/ FallbackPagesOk(j)
        \/ WriteArchiveOk(j)
        \/ \E i \in 1..(MaxPages + 1) : PageStart(j, i)
        \/ \E i \in 1..(MaxPages + 1) : PageFetched(j, i)
        \/ \E i \in 1..(MaxPages + 1) : PageFetchFail(j, i)
        \/ \E i \in 1..(MaxPages + 1) : PageOpen(j, i)
        \/ \E i \in 1..(MaxPages + 1) : PageWritten(j, i)
        \/ AssembleDone(j)
        \/ NormalizeOk(j)
        \/ FrameTick(j)
        \/ FrameMkdir(j)
        \/ FrameScan(j)
        \/ FrameCopy(j)
        \/ FrameVerify(j)
        \/ ProcCloseOk(j)
        \/ ProcCloseFail(j)
        \/ ProcError(j)
        \/ ProcCloseAfterError(j)
        \/ FinalizeOk(j)
        \/ JobAttach(j)
        \/ TtlFire(j)
        \/ TtlDisposeSettle(j)
        \/ \E via \in Routes : TakeJobArtifact(j, via)
        \/ RouteDispose(j)

Spec == Init /\ [][Next]_vars


\* The event loop runs a queued continuation, a due timer fires, and the
\* removal started by dispose settles.
LiveSpec ==
    /\ Spec
    /\ \A j \in JobIds :
         /\ WF_vars(JobAttach(j))
         /\ WF_vars(JobFail(j))
         /\ WF_vars(TtlFire(j))
         /\ WF_vars(TtlDisposeSettle(j))

(***************************************************************************)
(* The web client's batch run (runSelectedAction).  The workers are the    *)
(* runWorker calls; a worker is identified by the archive it is working    *)
(* on.  The job of an archive is the server's conversion job started for   *)
(* it, reduced to its status.                                              *)
(***************************************************************************)
BATCH_MAX_PARALLEL == 4
\* Archives selected for one batch, at most.
MaxBatch == 5

Modes == {"download", "upload"}
Settled == {"completed", "failed"}

\* failures counts the entries of the failure list that name the archive,
\* starts the calls of runConversionJob for it.
QueuedArchive ==
    [at |-> "pending", job |-> "none", upload |-> "none", failures |-> 0,
     starts |-> 0]

\* A variant whose index advances by two.
TakeNext_SkipsOne(b, arch) ==
    LET index == b.nextIndex
        taken == [b EXCEPT !.nextIndex = index + 2]
    IN  IF index >= Len(arch)
        THEN <<[taken EXCEPT !.workersLeft = @ - 1], arch>>
        ELSE <<taken, [arch EXCEPT ![index + 1].at = "starting",
                                   ![index + 1].starts = @ + 1]>>

\* runWorker at the top of its loop: the next index is taken; past the end
\* of the queue the worker returns, otherwise runConversionJob issues the
\* start request for that archive.
TakeNext(b, arch) ==
    LET index == b.nextIndex
        taken == [b EXCEPT !.nextIndex = index + 1]
    IN  IF index >= Len(arch)
        THEN <<[taken EXCEPT !.workersLeft = @ - 1], arch>>
        ELSE <<taken, [arch EXCEPT ![index + 1].at = "starting",
                                   ![index + 1].starts = @ + 1]>>

RECURSIVE StartWorkers(_, _, _)
StartWorkers(count, b, arch) ==
    IF count = 0 THEN <<b, arch>>
    ELSE LET next == TakeNext(b, arch) IN StartWorkers(count - 1, next[1], next[2])

\* A variant of the catch clause after which the worker returns.
WorkerCatch_Returns(arch, a) ==
    <<[batch EXCEPT !.failed = @ + 1, !.workersLeft = @ - 1],
      [arch EXCEPT ![a].at = "done", ![a].failures = @ + 1]>>

\* catch and finally of runWorker: one entry in the failure list, then the
\* worker goes on with the next archive.
WorkerCatch(arch, a) ==
    TakeNext([batch EXCEPT !.failed = @ + 1],
             [arch EXCEPT ![a].at = "done", ![a].failures = @ + 1])

\* A variant of the chain that runs every queued upload at once.
runChained_NoChain(arch, queue) ==
    [a \in DOMAIN arch |->
        IF arch[a].upload = "queued" THEN [arch[a] EXCEPT !.upload = "uploading"]
        ELSE arch[a]]

\* uploadQueue.then(run, run): the run of an enqueued upload starts once
\* the upload enqueued before it has settled.
runChained(arch, queue) ==
    IF queue # <<>> /\ arch[Head(queue)].upload = "queued"
    THEN [arch EXCEPT ![Head(queue)].upload = "uploading"]
    ELSE arch

\* The selection, the mode and the device address are read; every worker
\* runs up to its first request.  An unusable device address in upload mode
\* ends the run before any worker exists.
BatchStart ==
    /\ batch.phase = "idle"
    /\ \E mode \in Modes, size \in 1..MaxBatch, deviceOk \in BOOLEAN :
         IF mode = "upload" /\ ~deviceOk
         THEN /\ batch' = [batch EXCEPT !.phase = "error", !.mode = mode]
              /\ archives' = [a \in 1..size |-> QueuedArchive]
         ELSE LET workerCount == Min(BATCH_MAX_PARALLEL, size)
                  started == StartWorkers(workerCount,
                                 [batch EXCEPT !.phase = "workers", !.mode = mode,
                                               !.workersLeft = workerCount],
                                 [a \in 1..size |-> QueuedArchive])
              IN  /\ batch' = started[1]
                  /\ archives' = started[2]
    /\ UNCHANGED <<uploadQueue, outsideBatch>>

\* The start request is answered with the job's snapshot, which is running:
\* the worker waits for its first poll.
StartOk(a) ==
    /\ a \in DOMAIN archives
    /\ archives[a].at = "starting"
    /\ archives' = [archives EXCEPT ![a].at = "polling", ![a].job = "running"]
    /\ UNCHANGED <<batch, uploadQueue, outsideBatch>>

\* The start request is refused: no job exists.
StartFail(a) ==
    /\ a \in DOMAIN archives
    /\ archives[a].at = "starting"
    /\ LET next == WorkerCatch(archives, a)
       IN  batch' = next[1] /\ archives' = next[2]
    /\ UNCHANGED <<uploadQueue, outsideBatch>>

\* The server's job of an archive no worker polls any more ends.  (The end
\* of a job a worker still polls is read by the poll that finds it.)
JobSettles(a) ==
    /\ a \in DOMAIN archives
    /\ archives[a].at = "done"
    /\ archives[a].job = "running"
    /\ \E status \in Settled : archives' = [archives EXCEPT ![a].job = status]
    /\ UNCHANGED <<batch, uploadQueue, outsideBatch>>

\* A poll is answered with the job's snapshot: the job is still running, or
\* it has ended since the poll before.
PollOk(a) ==
    /\ a \in DOMAIN archives
    /\ archives[a].at = "polling"
    /\ \E status \in {"running"} \cup Settled :
         LET polled == [archives EXCEPT ![a].job = status]
         IN  CASE status = "running" ->
                    /\ archives' = polled
                    /\ UNCHANGED <<batch, uploadQueue>>
               [] status = "failed" ->
                    /\ LET next == WorkerCatch(polled, a)
                       IN  batch' = next[1] /\ archives' = next[2]
                    /\ UNCHANGED uploadQueue
               [] status = "completed" /\ batch.mode = "download" ->
                    /\ archives' = [polled EXCEPT ![a].at = "delivering"]
                    /\ UNCHANGED <<batch, uploadQueue>>
               [] status = "completed" /\ batch.mode = "upload" ->
                    LET queue == Append(uploadQueue, a)
                        enqueued == [polled EXCEPT ![a].at = "done", ![a].upload = "queued"]
                        next == TakeNext(batch, runChained(enqueued, queue))
                    IN  /\ uploadQueue' = queue
                        /\ batch' = next[1]
                        /\ archives' = next[2]
    /\ UNCHANGED outsideBatch

\* A poll fails for good: with an error that is not retryable, or with the
\* sixth retryable error in a row.  runConversionJob rethrows it, whatever
\* the job is doing.  (A retried poll error changes nothing but the count
\* of failed polls, which the next answered poll resets.)
PollError(a) ==
    /\ a \in DOMAIN archives
    /\ archives[a].at = "polling"
    /\ LET next == WorkerCatch(archives, a)
       IN  batch' = next[1] /\ archives' = next[2]
    /\ UNCHANGED <<uploadQueue, outsideBatch>>

\* Download mode: the converted file arrived (or did not) at the browser.
Deliver(a) ==
    /\ a \in DOMAIN archives
    /\ archives[a].at = "delivering"
    /\ \E ok \in BOOLEAN :
         LET next == IF ok
                     THEN TakeNext([batch EXCEPT !.completed = @ + 1],
                                   [archives EXCEPT ![a].at = "done"])
                     ELSE WorkerCatch(archives, a)
         IN  batch' = next[1] /\ archives' = next[2]
    /\ UNCHANGED <<uploadQueue, outsideBatch>>

\* Upload mode: the upload request of the running upload settles, and the
\* chain goes on with the upload enqueued after it.
UploadSettles(a) ==
    /\ a \in DOMAIN archives
    /\ archives[a].upload = "uploading"
    /\ LET rest == SelectSeq(uploadQueue, LAMBDA x : x # a)
       IN  /\ uploadQueue' = rest
           /\ \E ok \in BOOLEAN :
                /\ archives' = runChained(
                       IF ok THEN [archives EXCEPT ![a].upload = "completed"]
                       ELSE [archives EXCEPT ![a].upload = "failed", ![a].failures = @ + 1],
                       rest)
                /\ batch' = IF ok THEN [batch EXCEPT !.completed = @ + 1]
                            ELSE [batch EXCEPT !.failed = @ + 1]
    /\ UNCHANGED outsideBatch

UploadsSettled == uploadQueue = <<>>

\* Every worker has returned: in upload mode the run waits for the uploads
\* enqueued so far, otherwise it reports its end.
JoinWorkers ==
    /\ batch.phase = "workers"
    /\ batch.workersLeft = 0
    /\ batch' = [batch EXCEPT !.phase =
                    IF batch.mode = "upload" /\ ~UploadsSettled THEN "uploads" ELSE "done"]
    /\ UNCHANGED <<archives, uploadQueue, outsideBatch>>

\* Every upload task has settled: the run reports its end.
JoinUploads ==
    /\ batch.phase = "uploads"
    /\ UploadsSettled
    /\ batch' = [batch EXCEPT !.phase = "done"]
    /\ UNCHANGED <<archives, uploadQueue, outsideBatch>>

BatchNext ==
    \/ BatchStart
    \/ \E a \in 1..MaxBatch :
          \/ StartOk(a)
          \/ StartFail(a)
          \/ JobSettles(a)
          \/ PollOk(a)
          \/ PollError(a)
          \/ Deliver(a)
          \/ UploadSettles(a)
    \/ JoinWorkers
    \/ JoinUploads

BatchSpec == Init /\ [][BatchNext]_vars

(***************************************************************************)
(* The device uploader: XteinkClient.uploadFile.  A response of the device *)
(* is its status and its body; a body is its sequence of words.            *)
(***************************************************************************)
Statuses == {200, 201, 300, 409, 412, 500}
Words == {"File", "already", "Exists", "CONFLICT", "duplicate", "disk", "full"}
Bodies == {<<>>, <<"File", "already", "Exists">>, <<"CONFLICT">>, <<"duplicate", "File">>,
           <<"disk", "full">>}
Responses == [status : Statuses, body : Bodies]

\* The i flag of the pattern: letters compare by their lower case.
LowerCase(word) ==
    CASE word = "File" -> "file"
      [] word = "Exists" -> "exists"
      [] word = "CONFLICT" -> "conflict"
      [] OTHER -> word

\* /(already exists|exists|duplicate|conflict)/i.test(body)
MatchesConflictWording(body) ==
    \E i \in DOMAIN body : LowerCase(body[i]) \in {"exists", "duplicate", "conflict"}

Is2xx(status) == status >= 200 /\ status < 300

\* A variant that takes every refused upload for a conflict.
conflictLike_AnyRefusal(response) == TRUE

conflictLike(response) ==
    \/ response.status = 409
    \/ response.status = 412
    \/ MatchesConflictWording(response.body)

\* The Error uploadFile throws: the prefix of its message, the status and
\* the body the message quotes, and the reason appended to it.
UploadError(kind, response, reason) ==
    Some([kind |-> kind, status |-> response.status, body |-> response.body,
          reason |-> reason])
\* An error of the transport or of reading the file, which quotes no response.
Thrown == [status |-> 0, body |-> <<>>]

\* uploadFile is called: the first upload request is sent.
CallUploadFile ==
    /\ uploadCall.pc = "idle"
    /\ uploadCall' = [uploadCall EXCEPT !.pc = "first", !.uploads = 1]
    /\ UNCHANGED outsideUpload

\* The first upload is answered: success, a refusal that is no conflict, or
\* a conflict, after which the delete request is sent.
FirstAnswered ==
    /\ uploadCall.pc = "first"
    /\ \E response \in Responses :
         uploadCall' =
            IF Is2xx(response.status)
            THEN [uploadCall EXCEPT !.pc = "ok", !.first = Some(response)]
            ELSE IF ~conflictLike(response)
            THEN [uploadCall EXCEPT !.pc = "failed", !.first = Some(response),
                                    !.error = UploadError("upload failed", response, "")]
            ELSE [uploadCall EXCEPT !.pc = "delete", !.first = Some(response),
                                    !.deletes = @ + 1]
    /\ UNCHANGED outsideUpload

\* The delete is answered: on success the upload is sent once more; a
\* refusal is thrown by deletePath and wrapped by the catch clause.
DeleteAnswered ==
    /\ uploadCall.pc = "delete"
    /\ \E response \in Responses :
         uploadCall' =
            IF Is2xx(response.status)
            THEN [uploadCall EXCEPT !.pc = "retry", !.uploads = @ + 1]
            ELSE [uploadCall EXCEPT !.pc = "failed",
                     !.error = UploadError("upload failed", uploadCall.first[1],
                                           "overwrite retry failed")]
    /\ UNCHANGED outsideUpload

\* The retried upload is answered.
RetryAnswered ==
    /\ uploadCall.pc = "retry"
    /\ \E response \in Responses :
         uploadCall' =
            IF Is2xx(response.status)
            THEN [uploadCall EXCEPT !.pc = "ok"]
            ELSE [uploadCall EXCEPT !.pc = "failed",
                     !.error = UploadError("upload retry failed", response, "")]
    /\ UNCHANGED outsideUpload

\* A request gets no answer, or the file cannot be read: the error of the
\* delete is wrapped like a refusal, any other leaves uploadFile as it is.
RequestThrows ==
    /\ uploadCall.pc \in {"first", "delete", "retry"}
    /\ uploadCall' = [uploadCall EXCEPT !.pc = "failed", !.error =
          IF uploadCall.pc = "delete"
          THEN UploadError("upload failed", uploadCall.first[1], "overwrite retry failed")
          ELSE UploadError("transport", Thrown, "")]
    /\ UNCHANGED outsideUpload

UploadNext ==
    \/ CallUploadFile
    \/ FirstAnswered
    \/ DeleteAnswered
    \/ RetryAnswered
    \/ RequestThrows

UploadSpec == Init /\ [][UploadNext]_vars

(***************************************************************************)
(* Settings and input resolution of convertArchiveToXtc, with the data the *)
(* decisions read: the settings of the request, the metadata and the raw   *)
(* download of the archive.  Runs against the same archive follow one      *)
(* another.  A comma separated list is the sequence of its tokens.         *)
(***************************************************************************)
\* Conversions run against the archive, at most.
MaxRuns == 2

Digits(n) == [kind |-> "digits", n |-> n, zeros |-> 0, pad |-> FALSE, word |-> ""]
Word(w) == [kind |-> "word", n |-> 0, zeros |-> 0, pad |-> FALSE, word |-> w]
Blank == [kind |-> "blank", n |-> 0, zeros |-> 0, pad |-> FALSE, word |-> ""]

\* "", "2,4", " 2 ,,04,2" and "0,a-b".
DontSplitInputs ==
    {<<>>,
     <<Digits(2), Digits(4)>>,
     <<[Digits(2) EXCEPT !.pad = TRUE], Blank, [Digits(4) EXCEPT !.zeros = 1], Digits(2)>>,
     <<Digits(0), Word("a-b")>>}

\* The default conversion profile.  Text settings are lists of tokens,
\* numeric settings are null or a number.
defaultConversionSettings ==
    [orientation |-> "landscape", splitMode |-> "overlap", noDither |-> FALSE,
     overlap |-> TRUE, splitSpreads |-> <<>>, splitAll |-> FALSE, skip |-> <<>>,
     only |-> <<>>, dontSplit |-> <<>>, contrastBoost |-> <<Digits(4)>>,
     margin |-> <<Digits(0)>>, includeOverviews |-> FALSE, sidewaysOverviews |-> FALSE,
     selectOverviews |-> <<>>, start |-> Null, stop |-> Null, padBlack |-> FALSE,
     hsplitCount |-> Null, hsplitOverlap |-> Null, hsplitMaxWidth |-> Null,
     vsplitTarget |-> Null, vsplitMinOverlap |-> Null, sampleSet |-> <<>>]

\* The settings of a conversion request: the defaults with the settings the
\* resolution reads or writes set freely.
SettingsInputs ==
    {[defaultConversionSettings EXCEPT
         !.orientation = orientation, !.splitMode = splitMode, !.overlap = overlap,
         !.splitAll = splitAll, !.sidewaysOverviews = sideways, !.dontSplit = dontSplit] :
       orientation \in {"landscape", "portrait"},
       splitMode \in {"overlap", "split", "nosplit"},
       overlap \in BOOLEAN, splitAll \in BOOLEAN, sideways \in BOOLEAN,
       dontSplit \in DontSplitInputs}

\* Content-type headers, in pieces: none, "Image/jpeg", "Text/HTML; charset=utf-8",
\* "application/json" and "application/zip".
ContentTypes ==
    {<<>>, <<"Image/", "jpeg">>, <<"Text/HTML", "; charset=utf-8">>,
     <<"application/json">>, <<"application/zip">>}
\* The first bytes of a payload, four at most.
Signatures ==
    {<<80, 75, 3, 4>>, <<80, 75, 7, 8>>, <<80, 75, 5, 4>>, <<255, 216, 255, 224>>, <<80, 75>>}

\* Archives: whether the extension is cbz or zip, the number of pages, the
\* page count of the metadata (0 while the server has not counted) and the
\* answer to the raw download.
Archives ==
    {a \in [cbzLike : BOOLEAN, pages : 0..MaxPages, pagecount : 0..MaxPages,
            contentType : ContentTypes, signature : Signatures] :
        /\ a.pagecount \in {0, a.pages}
        /\ ~a.cbzLike => (a.contentType = <<>> /\ a.signature = <<80, 75>>)}

toLowerCase(piece) ==
    CASE piece = "Image/" -> "image/"
      [] piece = "Text/HTML" -> "text/html"
      [] OTHER -> piece

\* A variant that only knows images.
looksLikeCoverOrNonArchive_ImagesOnly(contentType) ==
    contentType # <<>> /\ toLowerCase(contentType[1]) = "image/"

looksLikeCoverOrNonArchive(contentType) ==
    LET lowered == [i \in DOMAIN contentType |-> toLowerCase(contentType[i])]
    IN  /\ lowered # <<>>
        /\ \/ lowered[1] = "image/"
           \/ \E i \in DOMAIN lowered : lowered[i] = "text/html"
           \/ \E i \in DOMAIN lowered : lowered[i] = "application/json"

isZipArchive(signature) ==
    /\ Len(signature) >= 4
    /\ signature[1] = 80 /\ signature[2] = 75
    /\ \/ signature[3] = 3 /\ signature[4] = 4
       \/ signature[3] = 5 /\ signature[4] = 6
       \/ signature[3] = 7 /\ signature[4] = 8

buildPageRangeList(count) == [i \in 1..count |-> Digits(i)]

\* filter of shiftDontSplitForPrependedCover: the first occurrence of every
\* token is kept.
RECURSIVE Deduplicated(_)
Deduplicated(tokens) ==
    IF tokens = <<>> THEN <<>>
    ELSE LET front == Deduplicated(SubSeq(tokens, 1, Len(tokens) - 1))
             last == tokens[Len(tokens)]
         IN  IF \E i \in DOMAIN front : front[i] = last THEN front ELSE Append(front, last)

\* A variant that keeps repeated tokens.
shiftDontSplitForPrependedCover_KeepsRepeats(raw) ==
    LET trimmed == [i \in DOMAIN raw |-> [raw[i] EXCEPT !.pad = FALSE]]
        tokens == SelectSeq(trimmed, LAMBDA t : t.kind # "blank")
    IN  <<Digits(1)>> \o [i \in DOMAIN tokens |->
            IF tokens[i].kind = "digits" THEN Digits(tokens[i].n + 1) ELSE tokens[i]]

shiftDontSplitForPrependedCover(raw) ==
    LET trimmed == [i \in DOMAIN raw |-> [raw[i] EXCEPT !.pad = FALSE]]
        tokens == SelectSeq(trimmed, LAMBDA t : t.kind # "blank")
        shifted == [i \in DOMAIN tokens |->
                       IF tokens[i].kind = "digits" THEN Digits(tokens[i].n + 1)
                       ELSE tokens[i]]
    IN  Deduplicated(<<Digits(1)>> \o shifted)

\* The listing of an archive's pages is the archive's pages, cached or
\* refreshed; getArchivePagesRobust chooses between the two listings.
getArchivePagesRobust(cachedPages, refreshedPages, expectedPageCount) ==
    IF cachedPages > 1 THEN cachedPages
    ELSE IF expectedPageCount <= 1 THEN cachedPages
    ELSE IF refreshedPages > 0 THEN refreshedPages ELSE cachedPages
ListedPages == getArchivePagesRobust(source.archive.pages, source.archive.pages,
                                     source.archive.pagecount)

\* A variant of the nosplit step that leaves overlap as resolved before.
resolveNoSplit_KeepsOverlap(s, pageCount) ==
    IF s.splitMode # "nosplit" THEN s
    ELSE [s EXCEPT !.dontSplit = IF pageCount > 0 THEN buildPageRangeList(pageCount) ELSE @,
                   !.splitAll = FALSE]

\* Portrait forces nosplit and sideways overviews; the split mode decides
\* overlap.
resolveOrientation(settings) ==
    LET s == IF settings.orientation = "portrait"
             THEN [settings EXCEPT !.splitMode = "nosplit", !.sidewaysOverviews = TRUE]
             ELSE settings
    IN  CASE s.splitMode = "overlap" -> [s EXCEPT !.overlap = TRUE]
          [] s.splitMode = "split" -> [s EXCEPT !.overlap = FALSE]
          [] OTHER -> s

\* nosplit: every page is listed in dontSplit; overlap and splitAll are off.
resolveNoSplit(s, pageCount) ==
    IF s.splitMode # "nosplit" THEN s
    ELSE [s EXCEPT !.dontSplit = IF pageCount > 0 THEN buildPageRangeList(pageCount) ELSE @,
                   !.overlap = FALSE, !.splitAll = FALSE]

\* A variant for which the text "0" is no value.
hasValue_NonZero(list) ==
    list # <<>> /\ ~(Len(list) = 1 /\ list[1].kind = "blank") /\ list # <<Digits(0)>>

hasValue(list) == list # <<>> /\ ~(Len(list) = 1 /\ list[1].kind = "blank")

\* The arguments of the tool, in order: a switch is one argument, an
\* option is the flag followed by its value.
Flag(name, value) == [flag |-> name, value |-> value]
\* A variant that pushes the flag of a switch that is off.
Switch_Inverted(on, name) == IF on THEN <<>> ELSE <<Flag(name, <<>>)>>
Switch(on, name) == IF on THEN <<Flag(name, <<>>)>> ELSE <<>>
TextOption(text, name) == IF hasValue(text) THEN <<Flag(name, text)>> ELSE <<>>
\* A numeric option is passed when it is a number of at least min.
NumberOption(number, min, name) ==
    IF number # Null /\ number[1] >= min THEN <<Flag(name, <<Digits(number[1])>>)>> ELSE <<>>

settingsToCbz2xtcArgs(s) ==
    Switch(s.splitMode = "overlap" \/ s.overlap, "--overlap")
    \o Switch(s.noDither, "--no-dither")
    \o Switch(s.splitAll, "--split-all")
    \o Switch(s.includeOverviews, "--include-overviews")
    \o Switch(s.sidewaysOverviews, "--sideways-overviews")
    \o Switch(s.padBlack, "--pad-black")
    \o TextOption(s.splitSpreads, "--split-spreads")
    \o TextOption(s.skip, "--skip")
    \o TextOption(s.only, "--only")
    \o TextOption(s.dontSplit, "--dont-split")
    \o TextOption(s.contrastBoost, "--contrast-boost")
    \o TextOption(s.margin, "--margin")
    \o TextOption(s.selectOverviews, "--select-overviews")
    \o TextOption(s.sampleSet, "--sample-set")
    \o NumberOption(s.start, 1, "--start")
    \o NumberOption(s.stop, 1, "--stop")
    \o NumberOption(s.hsplitCount, 1, "--hsplit-count")
    \o NumberOption(s.hsplitOverlap, 1, "--hsplit-overlap")
    \o NumberOption(s.hsplitMaxWidth, 1, "--hsplit-max-width")
    \o NumberOption(s.vsplitTarget, 1, "--vsplit-target")
    \o NumberOption(s.vsplitMinOverlap, 0, "--vsplit-min-overlap")
    \o <<Flag("--clean", <<>>)>>

\* preparePagesForBuild on n pages: the first call in landscape orientation
\* with a page shifts dontSplit; every such call puts the first page in front.
applyCoverPrep(r, n) ==
    LET prepared == [r EXCEPT !.prepCalls = @ + 1,
                              !.handed = preparePagesForBuild(r.settings.orientation = "landscape", n)]
    IN  IF r.settings.orientation = "landscape" /\ n > 0 /\ ~r.coverPrep
        THEN [prepared EXCEPT !.coverPrep = TRUE,
                 !.settings.dontSplit = shiftDontSplitForPrependedCover(r.settings.dontSplit)]
        ELSE prepared

\* A variant of the fallback that assembles whatever the listing holds.
assembleFromPages_BuildsEmpty(r) ==
    LET n == IF r.cachedPages >= 0 THEN r.cachedPages ELSE ListedPages
    IN  [applyCoverPrep(r, n) EXCEPT !.pc = "tool", !.cachedPages = n,
                                      !.container = "assembled"]

\* The page-assembly fallback: the page list known so far, or a fresh one.
assembleFromPages(r) ==
    LET n == IF r.cachedPages >= 0 THEN r.cachedPages ELSE ListedPages
    IN  IF n = 0 THEN [r EXCEPT !.pc = "failed", !.cachedPages = n]
        ELSE [applyCoverPrep(r, n) EXCEPT !.pc = "tool", !.cachedPages = n,
                                           !.container = "assembled"]

\* The archive the conversions are run against and the configuration.
ChooseArchive ==
    /\ ~source.chosen
    /\ \E archive \in Archives, extraction \in BOOLEAN :
         source' = [chosen |-> TRUE, archive |-> archive, useExtraction |-> extraction]
    /\ UNCHANGED <<resolution, outsideResolve>>

\* A conversion starts: the metadata arrives and the settings are resolved;
\* with nosplit and no page count in the metadata the pages are listed.
BeginRun ==
    /\ source.chosen
    /\ resolution.pc \in {"idle", "finished", "failed"}
    /\ resolution.run < MaxRuns
    /\ \E settings \in SettingsInputs :
         LET oriented == resolveOrientation(settings)
             counted == oriented.splitMode = "nosplit" /\ source.archive.pagecount <= 0
             pageCount == IF counted THEN ListedPages ELSE source.archive.pagecount
             resolved == resolveNoSplit(oriented, pageCount)
         IN  resolution' =
                [pc |-> IF source.useExtraction THEN "extraction" ELSE "input",
                 run |-> resolution.run + 1,
                 settings |-> resolved, base |-> resolved.dontSplit,
                 cachedPages |-> IF counted THEN pageCount ELSE -1,
                 coverPrep |-> FALSE, prepCalls |-> 0, handed |-> <<>>,
                 container |-> "none", args |-> <<>>]
    /\ UNCHANGED <<source, outsideResolve>>

\* USE_LRR_PAGE_EXTRACTION: the pages are listed and prepared; more than one
\* prepared page is assembled into the container.
ExtractPages ==
    /\ resolution.pc = "extraction"
    /\ LET n == ListedPages
           prepared == applyCoverPrep([resolution EXCEPT !.cachedPages = n], n)
       IN  resolution' =
              IF Len(prepared.handed) > 1
              THEN [prepared EXCEPT !.pc = "tool", !.container = "assembled"]
              ELSE [prepared EXCEPT !.pc = "input"]
    /\ UNCHANGED <<source, outsideResolve>>

\* No container yet and a cbz or zip extension: the raw download is taken
\* unless its content type or its first bytes give it away.
DownloadArchive ==
    /\ resolution.pc = "input"
    /\ source.archive.cbzLike
    /\ resolution' =
          IF looksLikeCoverOrNonArchive(source.archive.contentType)
          THEN assembleFromPages(resolution)
          ELSE IF isZipArchive(source.archive.signature)
          THEN [resolution EXCEPT !.pc = "tool", !.container = "download"]
          ELSE assembleFromPages(resolution)
    /\ UNCHANGED <<source, outsideResolve>>

\* No container yet and another extension: page assembly.
AssembleFallback ==
    /\ resolution.pc = "input"
    /\ ~source.archive.cbzLike
    /\ resolution' = assembleFromPages(resolution)
    /\ UNCHANGED <<source, outsideResolve>>

\* The external tool is run on the container with the resolved settings.
RunTool ==
    /\ resolution.pc = "tool"
    /\ resolution' = [resolution EXCEPT !.pc = "finished",
                         !.args = settingsToCbz2xtcArgs(resolution.settings)]
    /\ UNCHANGED <<source, outsideResolve>>

ResolveNext ==
    \/ ChooseArchive
    \/ BeginRun
    \/ ExtractPages
    \/ DownloadArchive
    \/ AssembleFallback
    \/ RunTool

ResolveSpec == Init /\ [][ResolveNext]_vars

(***************************************************************************)
(* Frame preview of runCbz2xtc (emitFrame), with the workspace the tool    *)
(* writes its frames into.  A frame file is its path, its modification     *)
(* time, its size and whether it is a complete PNG.                        *)
(***************************************************************************)
\* Frame files the tool writes, modification times and sizes.
FramePaths == 1..2
MaxStamp == 2
\* Writes of the tool to its workspace per run, at most.
MaxWrites == 3

NoFile == [mtime |-> 0, size |-> 0, complete |-> FALSE]
FrameFiles == [mtime : 1..MaxStamp, size : 1..2, complete : BOOLEAN]

\* frameKey of emitFrame: path, mtimeMs and size of a listed candidate.
FrameKey(path, file) == <<path, file.mtime, file.size>>

\* listConvertedFrames: the PNG files present, and the order of its sort.
ListedFrames(files) == {path \in FramePaths : files[path] # NoFile}
SortsBefore(files, a, b) ==
    \/ files[a].mtime < files[b].mtime
    \/ files[a].mtime = files[b].mtime /\ a < b

\* A variant of the candidate test that does not look at the emitted keys.
Eligible_IgnoresEmitted(files, emitted, now, path) ==
    /\ files[path].mtime <= now
    /\ files[path].complete

\* The candidate test of emitFrame's loop: not emitted yet, old enough at
\* the time of the poll, a complete PNG.
Eligible(files, emitted, now, path) ==
    /\ FrameKey(path, files[path]) \notin emitted
    /\ files[path].mtime <= now
    /\ files[path].complete

\* The first listed candidate that passes, if any.
SourceFrames(files, emitted, now) ==
    {path \in ListedFrames(files) :
        /\ Eligible(files, emitted, now, path)
        /\ \A other \in ListedFrames(files) :
              (SortsBefore(files, other, path)) => ~Eligible(files, emitted, now, other)}

\* convertedFrameVersion after the registry applied the frame event.
Accepted(version, path) ==
    applyEventFields([InitialSnapshot EXCEPT !.convertedFrameVersion = version],
                     FrameEvent(path)).convertedFrameVersion

\* spawn: the interval timer is set and emitFrame is called at once.
PollerSpawn ==
    /\ poller.pc = "idle"
    /\ poller' = [pc |-> "running", polling |-> TRUE, stopped |-> FALSE, timer |-> TRUE,
                  step |-> "list", files |-> [path \in FramePaths |-> NoFile],
                  writes |-> 0, emitted |-> {}, sourceFrame |-> <<>>, held |-> TRUE,
                  version |-> 0, log |-> <<>>]
    /\ UNCHANGED outsidePoller

\* The tool writes, rewrites or completes a frame file.
ToolWrites ==
    /\ poller.pc = "running"
    /\ poller.writes < MaxWrites
    /\ \E path \in FramePaths, file \in FrameFiles :
         /\ file # poller.files[path]
         /\ file.mtime >= poller.files[path].mtime
         /\ poller' = [poller EXCEPT !.files[path] = file, !.writes = @ + 1]
    /\ UNCHANGED outsidePoller

\* The interval timer calls emitFrame: a poll starts unless one is running
\* or the supervisor has stopped.
PollerTick ==
    /\ poller.pc \in {"running", "errored"}
    /\ poller.timer
    /\ ~poller.polling
    /\ ~poller.stopped
    /\ poller' = [poller EXCEPT !.polling = TRUE, !.step = "list"]
    /\ UNCHANGED outsidePoller

\* mkdir, listConvertedFrames and the loop over the candidates: the first
\* that passes is remembered as emitted and copied; none ends the poll.
PollerScan ==
    /\ poller.pc # "idle"
    /\ poller.polling
    /\ poller.step = "list"
    /\ \E now \in 0..MaxStamp :
         LET found == SourceFrames(poller.files, poller.emitted, now)
         IN  IF found = {}
             THEN poller' = [poller EXCEPT !.polling = FALSE, !.step = "none"]
             ELSE \E path \in found :
                    poller' = [poller EXCEPT
                                  !.step = "copy",
                                  !.sourceFrame = FrameKey(path, poller.files[path]),
                                  !.emitted = @ \cup {FrameKey(path, poller.files[path])}]
    /\ UNCHANGED outsidePoller

\* copyFile of the source frame's path as it is now, and the check of the
\* copy: a complete copy is emitted as a frame event of the source frame,
\* which the registry applies while it holds the job; an incomplete copy is
\* removed, a failed copy ends the poll.
PollerCopy ==
    /\ poller.pc # "idle"
    /\ poller.polling
    /\ poller.step = "copy"
    /\ \E copied \in BOOLEAN :
         LET file == poller.files[poller.sourceFrame[1]]
         IN  IF copied /\ file # NoFile /\ file.complete
             THEN poller' = [poller EXCEPT
                                !.polling = FALSE, !.step = "none",
                                !.log = Append(@, poller.sourceFrame),
                                !.version = IF poller.held
                                            THEN Accepted(@, poller.sourceFrame[1]) ELSE @]
             ELSE poller' = [poller EXCEPT !.polling = FALSE, !.step = "none"]
    /\ UNCHANGED outsidePoller

\* The 'error' event of the child process: the timer keeps running.
PollerProcError ==
    /\ poller.pc = "running"
    /\ poller' = [poller EXCEPT !.pc = "errored"]
    /\ UNCHANGED outsidePoller

\* The 'close' event: stopped is set and the timer is cleared; a poll in
\* flight runs on.
PollerProcClose ==
    /\ poller.pc \in {"running", "errored"}
    /\ poller' = [poller EXCEPT !.pc = "closed", !.stopped = TRUE, !.timer = FALSE]
    /\ UNCHANGED outsidePoller

\* The job leaves the registry (taken or reclaimed): onProgress drops the
\* events that follow.
PollerJobDropped ==
    /\ poller.pc = "closed"
    /\ poller.held
    /\ poller' = [poller EXCEPT !.held = FALSE]
    /\ UNCHANGED outsidePoller

PollerNext ==
    \/ PollerSpawn
    \/ ToolWrites
    \/ PollerTick
    \/ PollerScan
    \/ PollerCopy
    \/ PollerProcError
    \/ PollerProcClose
    \/ PollerJobDropped

PollerSpec == Init /\ [][PollerNext]_vars

(***************************************************************************)
(* Streamed delivery: streamFileAsResponse as the convert route and the    *)
(* job download route call it, with the read stream of the output file.    *)
(* The stream is read in chunks; it emits 'error' and 'close'.             *)
(***************************************************************************)
\* Chunks of the largest output file.
MaxChunks == 4
StreamRoutes == {"convert", "download"}

\* A variant of finish without the done flag.
finish_Unguarded(d) == [d EXCEPT !.done = TRUE, !.disposeCalls = @ + 1, !.rm = "running"]

\* finish: the first of 'close' and 'error' calls onDone, which invokes the
\* artifact's dispose without waiting for it.
finish(d) ==
    IF d.done THEN d
    ELSE [d EXCEPT !.done = TRUE, !.disposeCalls = @ + 1, !.rm = "running"]

\* A route holds an artifact (the pipeline returned it, or takeJobArtifact
\* did) and calls streamFileAsResponse.
DeliveryBegin ==
    /\ delivery.pc = "idle"
    /\ \E route \in StreamRoutes, size \in 1..MaxChunks :
         delivery' = [pc |-> "stat", route |-> route, size |-> size, read |-> 0,
                      stream |-> "none", emitted |-> <<>>, done |-> FALSE,
                      disposeCalls |-> 0, rm |-> "none"]
    /\ UNCHANGED outsideDelivery

\* stat succeeded: the stream is created, finish is registered for 'close'
\* and 'error', and the response is returned.
DeliveryStatOk ==
    /\ delivery.pc = "stat"
    /\ delivery' = [delivery EXCEPT !.pc = "responded", !.stream = "open"]
    /\ UNCHANGED outsideDelivery

\* stat failed: the call rejects before a stream exists.
DeliveryStatFails ==
    /\ delivery.pc = "stat"
    /\ delivery' = [delivery EXCEPT !.pc = "rejected"]
    /\ UNCHANGED outsideDelivery

\* The response body takes the next chunk of the file.
StreamRead ==
    /\ delivery.pc = "responded"
    /\ delivery.stream \in {"open", "reading"}
    /\ delivery.read < delivery.size
    /\ delivery' = [delivery EXCEPT !.stream = "reading", !.read = @ + 1]
    /\ UNCHANGED outsideDelivery

\* The end of the file was read: the stream closes itself, 'close'.
StreamEnd ==
    /\ delivery.pc = "responded"
    /\ delivery.stream = "reading"
    /\ delivery.read = delivery.size
    /\ delivery' = finish([delivery EXCEPT !.stream = "closed", !.emitted = Append(@, "close")])
    /\ UNCHANGED outsideDelivery

\* The consumer gives up (the client went away): the stream is destroyed,
\* 'close'.
StreamDestroyed ==
    /\ delivery.pc = "responded"
    /\ delivery.stream \in {"open", "reading"}
    /\ delivery' = finish([delivery EXCEPT !.stream = "closed", !.emitted = Append(@, "close")])
    /\ UNCHANGED outsideDelivery

\* Opening or reading the file fails: 'error'.
StreamError ==
    /\ delivery.pc = "responded"
    /\ delivery.stream \in {"open", "reading"}
    /\ delivery' = finish([delivery EXCEPT !.stream = "errored", !.emitted = Append(@, "error")])
    /\ UNCHANGED outsideDelivery

\* The 'close' that follows an 'error'.
StreamCloseAfterError ==
    /\ delivery.pc = "responded"
    /\ delivery.stream = "errored"
    /\ delivery' = finish([delivery EXCEPT !.stream = "closed", !.emitted = Append(@, "close")])
    /\ UNCHANGED outsideDelivery

\* The removal of the workspace that dispose started settles.
DisposeSettles ==
    /\ delivery.pc = "responded"
    /\ delivery.rm = "running"
    /\ \E removed \in BOOLEAN :
         delivery' = [delivery EXCEPT !.rm = IF removed THEN "removed" ELSE "failed"]
    /\ UNCHANGED outsideDelivery

DeliveryNext ==
    \/ DeliveryBegin
    \/ DeliveryStatOk
    \/ DeliveryStatFails
    \/ StreamRead
    \/ StreamEnd
    \/ StreamDestroyed
    \/ StreamError
    \/ StreamCloseAfterError
    \/ DisposeSettles

DeliverySpec == Init /\ [][DeliveryNext]_vars

(***************************************************************************)
(* One call of settingsToCbz2xtcArgs on the settings of a request.         *)
(***************************************************************************)
\* Settings a caller passes: the defaults with some of them changed.
MappingInputs ==
    {[defaultConversionSettings EXCEPT
         !.splitMode = splitMode, !.overlap = overlap, !.noDither = noDither,
         !.splitAll = splitAll, !.includeOverviews = includeOverviews,
         !.sidewaysOverviews = sidewaysOverviews,
         !.padBlack = padBlack, !.contrastBoost = contrastBoost, !.margin = margin,
         !.start = start, !.vsplitMinOverlap = vsplitMinOverlap] :
       splitMode \in {"overlap", "split", "nosplit"}, overlap \in BOOLEAN,
       noDither \in BOOLEAN, splitAll \in BOOLEAN, includeOverviews \in BOOLEAN,
       sidewaysOverviews \in BOOLEAN, padBlack \in BOOLEAN,
       contrastBoost \in {<<Digits(4)>>, <<>>, <<Blank>>},
       margin \in {<<Digits(0)>>, <<Digits(2)>>, <<>>},
       start \in {Null, Some(0), Some(2)},
       vsplitMinOverlap \in {Null, Some(0)}}

\* The argument vector: the flag, then its value if it has one.
RECURSIVE Argv(_)
Argv(flags) ==
    IF flags = <<>> THEN <<>>
    ELSE LET first == Head(flags)
         IN  (IF first.value = <<>> THEN <<(<<Word(first.flag)>>)>>
              ELSE <<(<<Word(first.flag)>>), first.value>>)
             \o Argv(Tail(flags))

MappingCall ==
    /\ mapping.pc = "idle"
    /\ \E settings \in MappingInputs :
         mapping' = [pc |-> "called", settings |-> settings, args |-> <<>>]
    /\ UNCHANGED outsideMapping

MappingReturn ==
    /\ mapping.pc = "called"
    /\ mapping' = [mapping EXCEPT !.pc = "returned",
                                  !.args = Argv(settingsToCbz2xtcArgs(mapping.settings))]
    /\ UNCHANGED outsideMapping

MappingNext ==
    \/ MappingCall
    \/ MappingReturn

MappingSpec == Init /\ [][MappingNext]_vars

(***************************************************************************)
(* The upload route, POST /convert/jobs/:jobId/upload: one request from    *)
(* its parsed body to its response.  A device URL is the text sent with    *)
(* the request or, when that is empty, the text of the device settings.    *)
(***************************************************************************)
\* Texts of a device URL: "", "  ", "192.168.0.5", "http://x4.local" and
\* "http://" (which the URL parser refuses).
UrlTexts == {"empty", "blank", "host", "url", "malformed"}

\* normalizeDeviceBaseUrl: the trimmed text must not be empty and, with a
\* scheme put in front if it has none, must parse as a URL.
normalizeDeviceBaseUrl(text) ==
    CASE text \in {"empty", "blank"} -> [ok |-> FALSE, value |-> "Device base URL is required."]
      [] text = "malformed" -> [ok |-> FALSE, value |-> "Invalid URL"]
      [] text = "host" -> [ok |-> TRUE, value |-> "http://192.168.0.5"]
      [] OTHER -> [ok |-> TRUE, value |-> "http://x4.local"]

\* parsedBody.data.baseUrl || defaults.baseUrl
RequestedUrl(sent, default) == IF sent = "empty" THEN default ELSE sent

\* The request arrived and its body was parsed.
UploadRouteRequest ==
    /\ uploadRoute.pc = "idle"
    /\ \E sent \in UrlTexts, default \in UrlTexts, ready \in BOOLEAN :
         uploadRoute' = [pc |-> "take", sent |-> sent, default |-> default,
                         registryHolds |-> ready, taken |-> FALSE, disposeCalls |-> 0,
                         rm |-> "none", response |-> 0]
    /\ UNCHANGED outsideUploadRoute

\* takeJobArtifact: 409 without an artifact; with one, the artifact leaves
\* the registry and the device URL is normalised, a refused URL ending the
\* request with 400.
UploadRouteTake ==
    /\ uploadRoute.pc = "take"
    /\ uploadRoute' =
          IF ~uploadRoute.registryHolds
          THEN [uploadRoute EXCEPT !.pc = "responded", !.response = 409]
          ELSE LET baseUrl == normalizeDeviceBaseUrl(
                                  RequestedUrl(uploadRoute.sent, uploadRoute.default))
               IN  IF baseUrl.ok
                   THEN [uploadRoute EXCEPT !.pc = "uploading", !.taken = TRUE,
                                            !.registryHolds = FALSE]
                   ELSE [uploadRoute EXCEPT !.pc = "responded", !.taken = TRUE,
                                            !.registryHolds = FALSE, !.response = 400]
    /\ UNCHANGED outsideUploadRoute

\* uploadFile settled: the finally clause invokes dispose and waits for it.
UploadRouteSettled ==
    /\ uploadRoute.pc = "uploading"
    /\ \E uploaded \in BOOLEAN :
         uploadRoute' = [uploadRoute EXCEPT !.pc = "disposing",
                                            !.disposeCalls = @ + 1,
                                            !.rm = "running",
                                            !.response = IF uploaded THEN 200 ELSE 500]
    /\ UNCHANGED outsideUploadRoute

\* dispose settled: the response, or the error of the upload or of dispose.
UploadRouteDisposed ==
    /\ uploadRoute.pc = "disposing"
    /\ \E removed \in BOOLEAN :
         uploadRoute' = [uploadRoute EXCEPT !.pc = "responded",
                                            !.rm = IF removed THEN "removed" ELSE "failed",
                                            !.response = IF removed THEN @ ELSE 500]
    /\ UNCHANGED outsideUploadRoute

UploadRouteNext ==
    \/ UploadRouteRequest
    \/ UploadRouteTake
    \/ UploadRouteSettled
    \/ UploadRouteDisposed

UploadRouteSpec == Init /\ [][UploadRouteNext]_vars

(***************************************************************************)
(* One upload-mode batch against the server's clock.  The jobs are the     *)
(* server's conversion jobs of the batch's archives, the uploads are the   *)
(* client's chained upload tasks.  Time is counted in ticks of LaneTickMs. *)
(***************************************************************************)
JOB_TTL_MS == 900000
DEVICE_UPLOAD_TIMEOUT_MS == 600000
\* The unit of the clock: half the upload timeout, a third of the TTL.
LaneTickMs == DEVICE_UPLOAD_TIMEOUT_MS \div 2
TtlTicks == JOB_TTL_MS \div LaneTickMs
UploadTicks == DEVICE_UPLOAD_TIMEOUT_MS \div LaneTickMs
\* Archives of the batch, at most: no more than the workers, so that every
\* conversion runs from the start.
MaxQueued == 3
\* The clock stops here.
MaxClock == 4

ConvertingJob ==
    [state |-> "converting", artifact |-> "none", due |-> 0, started |-> 0, requests |-> 0]

\* A variant of the cleanup timer that never comes due.
TtlDue_Never(item, now) == FALSE

\* The timer of scheduleCleanup has run for JOB_TTL_MS.
TtlDue(item, now) == item.artifact = "held" /\ item.due <= now

\* The upload request has been silent for DEVICE_UPLOAD_TIMEOUT_MS.
UploadTimedOut(item, now) == item.state = "uploading" /\ now - item.started >= UploadTicks

\* uploadQueue.then(run, run) and run: the upload at the head of the chain
\* sends its request once the upload before it has settled.  The route
\* takes the job's artifact; without one it answers 409, run catches that
\* and the chain goes on.
RECURSIVE runHead(_, _, _)
runHead(items, queue, now) ==
    IF queue = <<>> THEN <<items, queue>>
    ELSE LET a == Head(queue)
         IN  IF items[a].state # "queued" THEN <<items, queue>>
             ELSE IF items[a].artifact = "held"
             THEN <<[items EXCEPT ![a].state = "uploading", ![a].artifact = "taken",
                                  ![a].started = now, ![a].requests = 1], queue>>
             ELSE runHead([items EXCEPT ![a].state = "refused"], Tail(queue), now)

\* A batch in upload mode starts: every archive has a worker converting it.
LaneStart ==
    /\ uploadLane.pc = "idle"
    /\ \E size \in 1..MaxQueued :
         uploadLane' = [pc |-> "running", now |-> 0, queue |-> <<>>,
                        items |-> [a \in 1..size |-> ConvertingJob]]
    /\ UNCHANGED outsideUploadLane

\* A conversion ends with its artifact: the server arms the cleanup timer,
\* the worker's poll reads the completed job and enqueues the upload.
LaneJobCompletes(a) ==
    /\ uploadLane.pc = "running"
    /\ a \in DOMAIN uploadLane.items
    /\ uploadLane.items[a].state = "converting"
    /\ LET now == uploadLane.now
           enqueued == [uploadLane.items EXCEPT ![a].state = "queued",
                                                ![a].artifact = "held",
                                                ![a].due = now + TtlTicks]
           next == runHead(enqueued, Append(uploadLane.queue, a), now)
       IN  uploadLane' = [uploadLane EXCEPT !.items = next[1], !.queue = next[2]]
    /\ UNCHANGED outsideUploadLane

\* A conversion fails: nothing is enqueued for it.
LaneJobFails(a) ==
    /\ uploadLane.pc = "running"
    /\ a \in DOMAIN uploadLane.items
    /\ uploadLane.items[a].state = "converting"
    /\ uploadLane' = [uploadLane EXCEPT !.items[a].state = "jobFailed"]
    /\ UNCHANGED outsideUploadLane

\* Time passes, unless a timer that is due has not run yet.
LaneTick ==
    /\ uploadLane.pc = "running"
    /\ uploadLane.now < MaxClock
    /\ \A a \in DOMAIN uploadLane.items :
         /\ ~TtlDue(uploadLane.items[a], uploadLane.now)
         /\ ~UploadTimedOut(uploadLane.items[a], uploadLane.now)
    /\ uploadLane' = [uploadLane EXCEPT !.now = @ + 1]
    /\ UNCHANGED outsideUploadLane

\* The cleanup timer of a completed job runs: the job leaves the registry
\* and its artifact is disposed.
LaneTtlFires(a) ==
    /\ uploadLane.pc = "running"
    /\ a \in DOMAIN uploadLane.items
    /\ TtlDue(uploadLane.items[a], uploadLane.now)
    /\ uploadLane' = [uploadLane EXCEPT !.items[a].artifact = "reclaimed"]
    /\ UNCHANGED outsideUploadLane

\* The device answers the upload request of the running upload, or the
\* request times out.  A conflict on the first request is followed by the
\* delete and the second upload request; anything else settles the upload,
\* and the chain goes on.
LaneUploadAnswered(a) ==
    /\ uploadLane.pc = "running"
    /\ a \in DOMAIN uploadLane.items
    /\ uploadLane.items[a].state = "uploading"
    /\ \E answer \in {"ok", "conflict", "error"} :
         LET now == uploadLane.now
             item == uploadLane.items[a]
         IN  IF answer = "conflict" /\ item.requests = 1
             THEN uploadLane' = [uploadLane EXCEPT !.items[a].requests = 2,
                                                   !.items[a].started = now]
             ELSE LET settled == [uploadLane.items EXCEPT ![a].state =
                                      IF answer = "ok" THEN "uploaded" ELSE "failed"]
                      next == runHead(settled, Tail(uploadLane.queue), now)
                  IN  uploadLane' = [uploadLane EXCEPT !.items = next[1], !.queue = next[2]]
    /\ UNCHANGED outsideUploadLane

UploadLaneNext ==
    \/ LaneStart
    \/ LaneTick
    \/ \E a \in 1..MaxQueued :
          \/ LaneJobCompletes(a)
          \/ LaneJobFails(a)
          \/ LaneTtlFires(a)
          \/ LaneUploadAnswered(a)

UploadLaneSpec == Init /\ [][UploadLaneNext]_vars

(***************************************************************************)
(* The retry fetcher: downloadPageWithRetry, called by a download task of  *)
(* createCbzFromPages.  A content-type header is a sequence of pieces, as  *)
(* for the raw archive download.                                           *)
(***************************************************************************)
PAGE_FETCH_RETRY_ATTEMPTS == 3
PAGE_FETCH_RETRY_DELAY_MS == 300

\* What downloadByPageUrl throws: fetch rejected, or the status was not ok.
FetchErrors == {"fetch", "status"}

\* A variant that compares the header as it was sent.
UnexpectedPageContentType_CaseSensitive(contentType) ==
    \E i \in DOMAIN contentType : contentType[i] \in {"text/html", "application/json"}

\* contentType.includes("text/html") || contentType.includes("application/json"),
\* on the header in lower case ("" when there is none).
UnexpectedPageContentType(contentType) ==
    LET lowered == [i \in DOMAIN contentType |-> toLowerCase(contentType[i])]
    IN  \E i \in DOMAIN lowered : lowered[i] \in {"text/html", "application/json"}

\* sleep(PAGE_FETCH_RETRY_DELAY_MS * attempt)
RetryDelay(attempt) == PAGE_FETCH_RETRY_DELAY_MS * attempt

\* The catch clause: the error is kept; below the ceiling the call sleeps
\* and the loop goes on, at the ceiling the loop ends and the last error is
\* thrown.
FetchCatch(f, outcome, error) ==
    LET caught == [f EXCEPT !.outcomes = Append(@, outcome), !.lastError = Some(error)]
    IN  IF f.attempt < PAGE_FETCH_RETRY_ATTEMPTS
        THEN [caught EXCEPT !.pc = "sleep", !.timer = RetryDelay(f.attempt)]
        ELSE [caught EXCEPT !.pc = "threw", !.thrown = Some(error)]

\* The task calls downloadPageWithRetry: the first request is sent.
FetchCall ==
    /\ pageFetch.pc = "idle"
    /\ pageFetch' = [pc |-> "request", attempt |-> 1, outcomes |-> <<>>, waits |-> <<>>,
                     timer |-> 0, lastError |-> Null, result |-> Null, thrown |-> Null,
                     job |-> "running"]
    /\ UNCHANGED outsidePageFetch

\* downloadByPageUrl throws.
FetchAttemptThrows ==
    /\ pageFetch.pc = "request"
    /\ \E kind \in FetchErrors :
         pageFetch' = FetchCatch(pageFetch, [kind |-> "throws", error |-> kind],
                                 [attempt |-> pageFetch.attempt, kind |-> kind])
    /\ UNCHANGED outsidePageFetch

\* downloadByPageUrl returns a response: it is returned to the task, unless
\* its content type is refused, which throws into the catch clause.
FetchAttemptAnswered ==
    /\ pageFetch.pc = "request"
    /\ \E contentType \in ContentTypes :
         LET outcome == [kind |-> "response", contentType |-> contentType]
         IN  IF UnexpectedPageContentType(contentType)
             THEN pageFetch' = FetchCatch(pageFetch, outcome,
                                   [attempt |-> pageFetch.attempt, kind |-> "content-type"])
             ELSE pageFetch' = [pageFetch EXCEPT !.outcomes = Append(@, outcome),
                                                 !.pc = "returned",
                                                 !.result = Some(contentType)]
    /\ UNCHANGED outsidePageFetch

\* The timer of sleep runs: the next attempt sends its request.
FetchSleepDone ==
    /\ pageFetch.pc = "sleep"
    /\ pageFetch' = [pageFetch EXCEPT !.pc = "request", !.attempt = @ + 1,
                                      !.waits = Append(@, pageFetch.timer)]
    /\ UNCHANGED outsidePageFetch

\* The error leaves the task, Promise.all and the pipeline, none of which
\* catches it: the job is marked failed.
FetchJobFails ==
    /\ pageFetch.pc = "threw"
    /\ pageFetch.job = "running"
    /\ pageFetch' = [pageFetch EXCEPT !.job = "failed"]
    /\ UNCHANGED outsidePageFetch

PageFetchNext ==
    \/ FetchCall
    \/ FetchAttemptThrows
    \/ FetchAttemptAnswered
    \/ FetchSleepDone
    \/ FetchJobFails

PageFetchSpec == Init /\ [][PageFetchNext]_vars

(***************************************************************************)
(* The archive assembler on its own: one createCbzFromPages call, from the *)
(* download tasks to the packed container.  A file is known by its         *)
(* extension.                                                              *)
(***************************************************************************)
\* Pages handed to one call, at most.
MaxInputs == 2
IMAGE_EXTENSIONS == {"jpg", "jpeg", "png", "gif", "webp", "bmp", "avif"}

\* The lines the normalisation helper can print for n files: one path with
\* the extension jpg per file when it works as written, fewer or more lines
\* or lines that are no image path otherwise.
HelperOutputs(n) == UNION {[1..k -> {"jpg", ""}] : k \in 0..(n + 1)}

\* The loop over downloadedFiles: files with an image extension are added.
archivedPageCount(files) == Cardinality({i \in DOMAIN files : files[i] \in IMAGE_EXTENSIONS})

\* A variant that accepts a container with more entries than pages.
CountMatches_AtLeast(archived, pages) == archived >= pages

\* archivedPageCount !== params.pages.length, negated.
CountMatches(archived, pages) == archived = pages

AsmDownloading == {i \in DOMAIN assembly.tasks : assembly.tasks[i] = "fetching"}
AsmQueued == {i \in DOMAIN assembly.tasks : assembly.tasks[i] = "queued"}

\* A rejection inside the call: the first one is what the call throws.
AsmThrow(a, error) ==
    IF a.pc \in {"threw", "done"} THEN a ELSE [a EXCEPT !.pc = "threw", !.error = error]

\* createCbzFromPages is called with a list of pages that is not empty:
\* one p-limit task per page.
AssemblyCall ==
    /\ assembly.pc = "idle"
    /\ \E n \in 1..MaxInputs, landscape \in BOOLEAN :
         assembly' = [pc |-> "downloads", pages |-> n, landscape |-> landscape,
                      tasks |-> [i \in 1..n |-> "queued"], files |-> <<>>,
                      archived |-> 0, events |-> <<>>, error |-> "none"]
    /\ UNCHANGED outsideAssembly

\* p-limit starts the next queued task.
AsmTaskStart(i) ==
    /\ assembly.pc # "idle"
    /\ i \in AsmQueued
    /\ \A k \in AsmQueued : i <= k
    /\ Cardinality(AsmDownloading) < Concurrency
    /\ assembly' = [assembly EXCEPT !.tasks[i] = "fetching"]
    /\ UNCHANGED outsideAssembly

\* The page is fetched and written: page_done with the page's position.
AsmTaskDone(i) ==
    /\ assembly.pc # "idle"
    /\ i \in AsmDownloading
    /\ assembly' = [assembly EXCEPT !.tasks[i] = "done",
                                    !.events = Append(@, PageDoneEvent(i, assembly.pages, i))]
    /\ UNCHANGED outsideAssembly

\* The fetch or the write of a page fails: Promise.all rejects, the other
\* tasks go on.
AsmTaskFails(i) ==
    /\ assembly.pc # "idle"
    /\ i \in AsmDownloading
    /\ assembly' = [AsmThrow(assembly, "download") EXCEPT !.tasks[i] = "dead"]
    /\ UNCHANGED outsideAssembly

\* Promise.all resolved: the helper is started on the downloaded files.
AsmAllDownloaded ==
    /\ assembly.pc = "downloads"
    /\ \A i \in DOMAIN assembly.tasks : assembly.tasks[i] = "done"
    /\ assembly' = [assembly EXCEPT !.pc = "normalize"]
    /\ UNCHANGED outsideAssembly

\* The helper exits: not with 0, or with no line printed, is an error;
\* otherwise the printed lines are the files to pack.  In landscape
\* orientation the first of them is rotated, which can fail.
AsmNormalized ==
    /\ assembly.pc = "normalize"
    /\ \E exitOk \in BOOLEAN, lines \in HelperOutputs(assembly.pages), rotateOk \in BOOLEAN :
         assembly' =
            IF ~exitOk \/ lines = <<>> THEN AsmThrow(assembly, "normalize")
            ELSE IF assembly.landscape /\ ~rotateOk THEN AsmThrow(assembly, "rotate")
            ELSE [assembly EXCEPT !.pc = "pack", !.files = lines,
                                  !.archived = archivedPageCount(lines)]
    /\ UNCHANGED outsideAssembly

\* The output stream of the zip closes: the count of packed entries is
\* compared with the count of pages, then cbz_ready is emitted.
AsmZipClosed ==
    /\ assembly.pc = "pack"
    /\ assembly' =
          IF CountMatches(assembly.archived, assembly.pages)
          THEN [assembly EXCEPT !.pc = "done",
                                !.events = Append(@, CbzReadyEvent(assembly.archived))]
          ELSE AsmThrow(assembly, "mismatch")
    /\ UNCHANGED outsideAssembly

\* The output stream fails.
AsmZipError ==
    /\ assembly.pc = "pack"
    /\ assembly' = AsmThrow(assembly, "zip")
    /\ UNCHANGED outsideAssembly

AssemblyNext ==
    \/ AssemblyCall
    \/ \E i \in 1..MaxInputs :
          \/ AsmTaskStart(i)
          \/ AsmTaskDone(i)
          \/ AsmTaskFails(i)
    \/ AsmAllDownloaded
    \/ AsmNormalized
    \/ AsmZipClosed
    \/ AsmZipError

AssemblySpec == Init /\ [][AssemblyNext]_vars

(***************************************************************************)
(* The facet and tag-suggestion caches of the API router against updates   *)
(* of the archive-server connection.  The connection manager counts its    *)
(* updates in version; the data of a response is named by the version of   *)
(* the connection it was fetched through.  The clock of the server         *)
(* advances in steps of half the lifetime of a cache entry.                *)
(***************************************************************************)
FACET_CACHE_MS == 300000
TAG_CACHE_MS == 300000
FacetTickMs == FACET_CACHE_MS \div 2
\* Updates of the connection settings, and clock steps, at most.
MaxUpdates == 2
MaxFacetClock == 2
\* Requests that can be in flight at once.
FacetRequests == {"r1", "r2"}
FacetNamespaces == {"artist", "group"}
CacheKeys == FacetNamespaces \cup {"tags"}

\* The lifetime of the cache a key is kept in.
CacheMs(key) == IF key = "tags" THEN TAG_CACHE_MS ELSE FACET_CACHE_MS

\* facetCache.get(namespace), or tagCache.
cachedEntry(f, key) == IF key = "tags" THEN f.tagCache ELSE f.facetCache[key]

\* facetCache.set(namespace, entry), or the assignment of tagCache.
withEntry(f, key, entry) ==
    IF key = "tags" THEN [f EXCEPT !.tagCache = Some(entry)]
    ELSE [f EXCEPT !.facetCache[key] = Some(entry)]

\* ensureCachesFresh: both caches are dropped when the version of the
\* connection is not the one they were filled under.
ensureCachesFresh(f) ==
    IF f.version = f.cacheVersion THEN f
    ELSE [f EXCEPT !.facetCache = [n \in FacetNamespaces |-> Null],
                   !.tagCache = Null,
                   !.cacheVersion = f.version]

\* createLanraragiConnectionManager and createApiRouter: version 0, empty
\* caches, cacheVersion read from the manager.
CreateApiRouter ==
    /\ facets.pc = "idle"
    /\ facets' = [pc |-> "serving", version |-> 0, cacheVersion |-> 0,
                  facetCache |-> [n \in FacetNamespaces |-> Null], tagCache |-> Null,
                  clock |-> 0, inFlight |-> [r \in FacetRequests |-> Null],
                  served |-> Null]
    /\ UNCHANGED outsideFacets

\* The clock of the server advances.
FacetTick ==
    /\ facets.pc = "serving"
    /\ facets.clock < MaxFacetClock
    /\ facets' = [facets EXCEPT !.clock = @ + 1]
    /\ UNCHANGED outsideFacets

\* POST /lanraragi/settings: a body that sets nothing, or a base URL that
\* does not parse, is answered with 400; otherwise updateSettings replaces
\* the client and counts the version up, and ensureCachesFresh runs.
PostLanraragiSettings ==
    /\ facets.pc = "serving"
    /\ \E valid \in BOOLEAN :
         IF valid
         THEN /\ facets.version < MaxUpdates
              /\ facets' = ensureCachesFresh([facets EXCEPT !.version = @ + 1])
         ELSE facets' = facets
    /\ UNCHANGED outsideFacets

\* GET /facets and GET /tags/suggest up to the first await: ensureCachesFresh,
\* then a cached entry younger than its lifetime is served; otherwise the
\* tag statistics are requested through the client of the moment.
GetCached(r, key) ==
    /\ facets.pc = "serving"
    /\ facets.inFlight[r] = Null
    /\ LET f == ensureCachesFresh(facets)
           now == f.clock * FacetTickMs
           cached == cachedEntry(f, key)
       IN  IF cached # Null /\ now - cached[1].at < CacheMs(key)
           THEN facets' = [f EXCEPT !.served =
                              Some([key |-> key, from |-> "cache",
                                    data |-> cached[1].data, version |-> f.version])]
           ELSE facets' = [f EXCEPT !.inFlight[r] =
                              Some([key |-> key, now |-> now, client |-> f.version])]
    /\ UNCHANGED outsideFacets

\* getTagStats is answered: the items are stored under the time read
\* before the request, and served.
TagStatsAnswered(r) ==
    /\ facets.pc = "serving"
    /\ facets.inFlight[r] # Null
    /\ LET req == facets.inFlight[r][1]
           entry == [at |-> req.now, data |-> req.client]
       IN  facets' = [withEntry(facets, req.key, entry) EXCEPT
                         !.inFlight[r] = Null,
                         !.served = Some([key |-> req.key, from |-> "fetch",
                                          data |-> req.client,
                                          version |-> facets.version])]
    /\ UNCHANGED outsideFacets

\* getTagStats throws: the request is answered with an error, the caches
\* are as they were.
TagStatsFails(r) ==
    /\ facets.pc = "serving"
    /\ facets.inFlight[r] # Null
    /\ facets' = [facets EXCEPT
                     !.inFlight[r] = Null,
                     !.served = Some([key |-> facets.inFlight[r][1].key, from |-> "error",
                                      version |-> facets.version])]
    /\ UNCHANGED outsideFacets

FacetsNext ==
    \/ CreateApiRouter
    \/ FacetTick
    \/ PostLanraragiSettings
    \/ \E r \in FacetRequests :
          \/ \E key \in CacheKeys : GetCached(r, key)
          \/ TagStatsAnswered(r)
          \/ TagStatsFails(r)

FacetsSpec == Init /\ [][FacetsNext]_vars

(***************************************************************************)
(* The title-bucket cache of the OPDS router for one browse direction.     *)
(* The archives of the server are numbered in title order; a search        *)
(* answers with the archives that follow its start index, a page of the    *)
(* server at most.  Cache objects are kept by identity: a request holds    *)
(* the object it looked up while titleCacheByDir may name a newer one.     *)
(* The clock advances in steps of half the lifetime of the cache.          *)
(***************************************************************************)
TITLE_CACHE_MS == 900000
TitleTickMs == TITLE_CACHE_MS \div 2
\* Archives on the server, archives per answer of a search, clock steps.
MaxArchives == 4
SearchPage == 2
MaxTitleClock == 2
TitleRequests == {"t1", "t2"}
\* LETTER_BUCKETS, the sections the archives of the model fall in.
Buckets == {"0-9", "A", "B", "#"}
\* Items a page request needs: start + pageSize + 1.
NeededCounts == 2..3

\* The first character of the trimmed title of an archive, the archives
\* being numbered in title order.
TitleInitial(arc) == IF arc = 1 THEN "7" ELSE IF arc <= 3 THEN "a" ELSE "B"

\* toUpperCase of a character.
UpperCase(ch) == CASE ch = "a" -> "A" [] ch = "b" -> "B" [] OTHER -> ch

\* bucketForFacetName, from the first character of the trimmed name.
bucketForFacetName(first) ==
    IF first = "" THEN "#"
    ELSE IF UpperCase(first) \in {"A", "B"} THEN UpperCase(first)
    ELSE IF first \in {"0", "1", "2", "3", "4", "5", "6", "7", "8", "9"} THEN "0-9"
    ELSE "#"

\* cache.buckets[bucket]: the archives pushed to the bucket, in push order.
BucketItems(cache, bucket) ==
    SelectSeq(cache.pushed, LAMBDA arc : bucketForFacetName(TitleInitial(arc)) = bucket)

\* searchArchives({start}): the archives after the start index.
SearchData(total, start) ==
    [k \in 1..Min(SearchPage, Max(total - start, 0)) |-> start + k]

\* total is Number.POSITIVE_INFINITY until the first answer.
EmptyTitleCache(now) ==
    [at |-> now, nextStart |-> 0, total |-> Null, done |-> FALSE, pushed |-> <<>>]

\* getOrResetTitleCache: the existing object while it is young enough,
\* otherwise a new empty object that replaces it.
getOrResetTitleCache(t) ==
    LET now == t.clock * TitleTickMs
    IN  IF t.current # 0 /\ now - t.objects[t.current].at < TITLE_CACHE_MS
        THEN t
        ELSE [t EXCEPT !.objects = Append(@, EmptyTitleCache(now)),
                       !.current = Len(t.objects) + 1]

\* The loop test of ensureTitleBucketItems on the object the request holds.
NeedsMore(t, req) ==
    /\ Len(BucketItems(t.objects[req.cache], req.bucket)) < req.needed
    /\ ~t.objects[req.cache].done

\* One turn of the loop of ensureTitleBucketItems for request r: the
\* result is returned, or fillOneTitleChunk looks the cache up again and
\* searches from its nextStart; when that cache is done it returns at once
\* and the loop turns again.
loopTurn(t, r) ==
    LET req == t.reqs[r][1]
    IN  IF ~NeedsMore(t, req)
        THEN [t EXCEPT !.reqs[r] = Null,
                       !.served = Some([bucket |-> req.bucket, cache |-> req.cache])]
        ELSE LET looked == getOrResetTitleCache(t)
                 fill == looked.current
             IN  IF looked.objects[fill].done
                 THEN [looked EXCEPT !.reqs[r] = Some([req EXCEPT !.pc = "looping"])]
                 ELSE [looked EXCEPT !.reqs[r] =
                          Some([req EXCEPT !.pc = "searching", !.fill = fill,
                                           !.start = looked.objects[fill].nextStart])]

\* The part of fillOneTitleChunk after the await.
filled(cache, data, total, now) ==
    IF data = <<>>
    THEN [cache EXCEPT !.total = Some(total), !.done = TRUE, !.at = now]
    ELSE [cache EXCEPT !.total = Some(total),
                       !.pushed = @ \o data,
                       !.nextStart = @ + Len(data),
                       !.done = @ \/ (cache.nextStart + Len(data) >= total),
                       !.at = now]

\* createOpdsRouter: no cache yet.
CreateOpdsRouter ==
    /\ titleCache.pc = "idle"
    /\ \E total \in 0..MaxArchives :
         titleCache' = [pc |-> "serving", total |-> total, clock |-> 0,
                        objects |-> <<>>, current |-> 0,
                        reqs |-> [r \in TitleRequests |-> Null], served |-> Null]
    /\ UNCHANGED outsideTitleCache

TitleTick ==
    /\ titleCache.pc = "serving"
    /\ titleCache.clock < MaxTitleClock
    /\ titleCache' = [titleCache EXCEPT !.clock = @ + 1]
    /\ UNCHANGED outsideTitleCache

\* A page of a letter section is requested: ensureTitleBucketItems up to
\* its first await.
TitleBrowse(r) ==
    /\ titleCache.pc = "serving"
    /\ titleCache.reqs[r] = Null
    /\ \E bucket \in Buckets, needed \in NeededCounts :
         LET looked == getOrResetTitleCache(titleCache)
             req == [pc |-> "loop", bucket |-> bucket, needed |-> needed,
                     cache |-> looked.current, fill |-> 0, start |-> 0]
         IN  titleCache' = loopTurn([looked EXCEPT !.reqs[r] = Some(req)], r)
    /\ UNCHANGED outsideTitleCache

\* The search of a request is answered: the chunk is added to the object
\* fillOneTitleChunk looked up, and the loop turns.
TitleChunkAnswered(r) ==
    /\ titleCache.pc = "serving"
    /\ titleCache.reqs[r] # Null
    /\ titleCache.reqs[r][1].pc = "searching"
    /\ LET req == titleCache.reqs[r][1]
           now == titleCache.clock * TitleTickMs
           data == SearchData(titleCache.total, req.start)
       IN  titleCache' =
               loopTurn([titleCache EXCEPT
                            !.objects[req.fill] = filled(@, data, titleCache.total, now)], r)
    /\ UNCHANGED outsideTitleCache

\* The search throws: the request fails.
TitleSearchFails(r) ==
    /\ titleCache.pc = "serving"
    /\ titleCache.reqs[r] # Null
    /\ titleCache.reqs[r][1].pc = "searching"
    /\ titleCache' = [titleCache EXCEPT !.reqs[r] = Null]
    /\ UNCHANGED outsideTitleCache

\* A loop whose fill returned at once turns again.
TitleLoopTurns(r) ==
    /\ titleCache.pc = "serving"
    /\ titleCache.reqs[r] # Null
    /\ titleCache.reqs[r][1].pc = "looping"
    /\ titleCache' = loopTurn(titleCache, r)
    /\ UNCHANGED outsideTitleCache

TitleCacheNext ==
    \/ CreateOpdsRouter
    \/ TitleTick
    \/ \E r \in TitleRequests :
          \/ TitleBrowse(r)
          \/ TitleChunkAnswered(r)
          \/ TitleSearchFails(r)
          \/ TitleLoopTurns(r)

TitleCacheSpec == Init /\ [][TitleCacheNext]_vars

(***************************************************************************)
(* Properties.                                                             *)
(***************************************************************************)
Held == DOMAIN jobs
StatusOf(j) == jobs[j].snapshot.status
Terminal(j) == j \in Held /\ StatusOf(j) \in {"completed", "failed"}
\* Jobs the registry holds before and after a step.
Kept == (DOMAIN jobs) \cap (DOMAIN jobs')

\* C1: a job's status only moves forward along queued -> running ->
\* (completed | failed); it never changes once completed or failed, never
\* returns to an earlier status, and a job the registry dropped never
\* comes back.
C1_StatusForward ==
    [][ /\ \A j \in Kept :
             \/ jobs'[j].snapshot.status = StatusOf(j)
             \/ <<StatusOf(j), jobs'[j].snapshot.status>> \in
                   {<<"queued", "running">>, <<"running", "completed">>,
                    <<"running", "failed">>}
        /\ \A j \in (DOMAIN jobs') \ (DOMAIN jobs) :
             /\ conv[j].pc = "none"
             /\ jobs'[j].snapshot.status \in {"queued", "running"} ]_vars

\* A failed job on which a take was tried and to which page events were
\* applied.
C1_Witness ==
    \E j \in Held :
        /\ StatusOf(j) = "failed"
        /\ jobs[j].snapshot.completedPages > 0
        /\ takes[j].calls > 0

\* C2: while a job is running its progress never decreases from one state
\* to the next, and progress is exactly 1 in every state in which the
\* status is completed.
C2_ProgressMonotone ==
    /\ [](\A j \in Held : StatusOf(j) = "completed" => jobs[j].snapshot.progress = ProgressOne)
    /\ [][\A j \in Kept :
             StatusOf(j) = "running" =>
                 jobs'[j].snapshot.progress >= jobs[j].snapshot.progress]_vars

\* A running job in the tool stage whose pages were all downloaded.
C2_Witness ==
    \E j \in Held :
        /\ StatusOf(j) = "running"
        /\ jobs[j].snapshot.totalPages > 1
        /\ jobs[j].snapshot.completedPages = jobs[j].snapshot.totalPages
        /\ jobs[j].snapshot.progress = Progress085

\* C3: for each job at most one takeJobArtifact call returns the artifact.
C3_AtMostOnce == \A j \in JobIds : takes[j].delivered <= 1

\* Two calls were made for a job; one got the artifact, the later one did not.
C3_Witness ==
    \E j \in JobIds :
        /\ takes[j].calls = 2
        /\ takes[j].delivered = 1
        /\ takes[j].last = "unknown"

\* C4: no take call returns an artifact whose dispose the TTL reclaimer has
\* already invoked.
C4_NoTakeAfterTtlDispose ==
    [][\A j \in JobIds :
          takes'[j].delivered > takes[j].delivered => "ttl" \notin disposedBy[j]]_vars

\* C5: a take call for a job id that is unknown, whose status is queued,
\* running or failed, or whose artifact was already taken returns
\* unavailable and changes neither the registry nor the cleanup timer.
C5_UnavailableLeavesRegistry ==
    [][\A j \in JobIds :
          ( /\ takes'[j].calls # takes[j].calls
            /\ \/ j \notin Held
               \/ StatusOf(j) \in {"queued", "running", "failed"}
               \/ takes[j].delivered > 0 )
          => /\ takes'[j].delivered = takes[j].delivered
             /\ takes'[j].last \notin {"none", "artifact"}
             /\ jobs' = jobs
             /\ ttl' = ttl ]_vars

\* A take call on a failed job found it failed; its timer is still armed.
C5_Witness ==
    \E j \in Held :
        /\ StatusOf(j) = "failed"
        /\ takes[j].last = "failed"
        /\ ttl[j] = "armed"

\* C6: once a take handed the artifact out before the TTL timer fired
\* (which cancels the timer), the record is absent from the registry, the
\* timer stays cancelled and the TTL disposal never runs for the job.
C6_TakeCancelsTtl ==
    /\ [](\A j \in JobIds :
             ttl[j] = "cancelled" => (j \notin Held /\ "ttl" \notin disposedBy[j]))
    /\ [][\A j \in JobIds : ttl[j] = "cancelled" => ttl'[j] = "cancelled"]_vars

\* The artifact was taken before the timer fired and the route disposed it.
C6_Witness ==
    \E j \in JobIds :
        /\ ttl[j] = "cancelled"
        /\ takes[j].delivered = 1
        /\ takes[j].holder = "released"

\* C7: every job that is completed or failed in the registry eventually
\* leaves the registry; a completed job that was never taken leaves it only
\* after the TTL callback invoked dispose, and whether dispose failed or not
\* the record is gone when the callback has finished.
C7_EventuallyReclaimed ==
    /\ \A j \in JobIds : Terminal(j) ~> (j \notin Held)
    /\ [](\A j \in JobIds :
             /\ ttl[j] \in {"finished", "finished-error"} => j \notin Held
             /\ ( /\ conv[j].pc = "settled"
                  /\ conv[j].thrown = Null
                  /\ takes[j].delivered = 0
                  /\ j \notin Held ) => "ttl" \in disposedBy[j])

\* The TTL callback's dispose failed and the record is gone all the same.
C7_Witness ==
    \E j \in JobIds :
        /\ ttl[j] = "finished-error"
        /\ takes[j].delivered = 0
        /\ j \notin Held

C9_TerminalFrozen ==
    [][\A j \in Kept :
          StatusOf(j) \in {"completed", "failed"} =>
              /\ jobs'[j].snapshot.progress = jobs[j].snapshot.progress
              /\ jobs'[j].snapshot.message = jobs[j].snapshot.message]_vars

\* C10: a failed job whose workspace directory was created has no
\* workspace directory on disk in any state in which it is failed.
C10_NoWorkspaceLeak ==
    \A j \in Held : StatusOf(j) = "failed" => jobDir[j] # "present"

\* C11: at the moment startConversionJob returns, the job it registered
\* and the snapshot it hands back (the record's own snapshot object) have
\* status queued and progress 0.
C11_StartReturnsQueued ==
    [][\A j \in JobIds :
          (j \notin DOMAIN jobs /\ j \in DOMAIN jobs') =>
              /\ jobs'[j].snapshot.status = "queued"
              /\ jobs'[j].snapshot.progress = 0]_vars

\* Archives of the batch by the state of their job and of their upload.
RunningJobs == {a \in DOMAIN archives : archives[a].job = "running"}
Uploading == {a \in DOMAIN archives : archives[a].upload = "uploading"}
Reported == {a \in DOMAIN archives : archives[a].failures > 0}

\* C12: for a batch of N archives, at every instant at most min(4, N)
\* conversion jobs of the batch are started and not yet completed or
\* failed, in download and in upload mode.
C12_ConversionBound ==
    Cardinality(RunningJobs) <= Min(BATCH_MAX_PARALLEL, Len(archives))

\* C13: within an upload-mode batch at most one upload request is in
\* flight at any instant, and the upload in flight is the oldest enqueued
\* upload that has not settled: every upload enqueued before it has
\* settled, successfully or not.
C13_UploadMutex ==
    /\ Cardinality(Uploading) <= 1
    /\ \A a \in Uploading : uploadQueue # <<>> /\ Head(uploadQueue) = a
    /\ \A k \in DOMAIN uploadQueue :
          archives[uploadQueue[k]].upload \in {"queued", "uploading"}

\* An earlier upload failed, the next one is in flight and a third waits.
C13_Witness ==
    /\ batch.mode = "upload"
    /\ Len(uploadQueue) >= 2
    /\ archives[Head(uploadQueue)].upload = "uploading"
    /\ \E a \in DOMAIN archives : archives[a].upload = "failed"

\* C14: at the end of a batch every archive has been worked on; in upload
\* mode every archive whose conversion was seen completed has had its
\* upload run; an archive has one entry in the failure report if its
\* conversion, its delivery or its upload failed and none otherwise, and
\* the counters of the run add up.
C14_FailureIsolation ==
    batch.phase = "done" =>
        /\ \A a \in DOMAIN archives :
              /\ archives[a].at = "done"
              /\ archives[a].failures <= 1
              /\ archives[a].job \in {"none", "failed"} => archives[a].failures = 1
              /\ archives[a].upload = "failed" => archives[a].failures = 1
              /\ archives[a].upload = "completed" => archives[a].failures = 0
              /\ batch.mode = "upload" =>
                    (archives[a].failures = 0 <=> archives[a].upload = "completed")
              /\ batch.mode = "download" => archives[a].upload = "none"
        /\ batch.failed = Cardinality(Reported)
        /\ batch.completed + batch.failed = Len(archives)

\* A finished upload batch in which one conversion failed, one upload
\* failed and an archive started after them was converted and uploaded.
C14_Witness ==
    /\ batch.phase = "done"
    /\ batch.mode = "upload"
    /\ \E a, b, c \in DOMAIN archives :
          /\ a < c /\ b < c
          /\ archives[a].job = "failed"
          /\ archives[b].upload = "failed"
          /\ archives[c].upload = "completed"

\* C15: the batch run reports its end only when every conversion job of
\* the batch is completed or failed and every enqueued upload has settled.
C15_EndAfterAllSettled ==
    batch.phase = "done" =>
        \A a \in DOMAIN archives :
            /\ archives[a].job # "running"
            /\ archives[a].upload \notin {"queued", "uploading"}

\* The first upload of the call was refused with a conflict: a status of
\* 409 or 412, or a body with the conflict wording.
FirstWasConflict ==
    /\ uploadCall.first # Null
    /\ ~Is2xx(uploadCall.first[1].status)
    /\ \/ uploadCall.first[1].status \in {409, 412}
       \/ MatchesConflictWording(uploadCall.first[1].body)

\* C16: a call of uploadFile sends at most two uploads and at most one
\* delete; it sends the delete and the second upload only after a first
\* upload refused with a conflict; and a call that succeeds after such a
\* refusal has sent exactly one delete and two uploads.
C16_OneDeleteOneRetry ==
    /\ uploadCall.uploads <= 2
    /\ uploadCall.deletes <= 1
    /\ (uploadCall.deletes > 0 \/ uploadCall.uploads > 1) => FirstWasConflict
    /\ (uploadCall.pc = "ok" /\ FirstWasConflict) =>
          (uploadCall.deletes = 1 /\ uploadCall.uploads = 2)

\* A 409 on the first upload, then a delete and a retry that succeed.
C16_Witness ==
    /\ uploadCall.pc = "ok"
    /\ uploadCall.first # Null
    /\ uploadCall.first[1].status = 409
    /\ uploadCall.deletes = 1
    /\ uploadCall.uploads = 2

\* C17: when uploadFile fails after a first upload refused with a
\* conflict, the error it throws quotes the status and the body of that
\* first upload.
C17_ErrorKeepsFirstAttempt ==
    (uploadCall.pc = "failed" /\ FirstWasConflict) =>
        /\ uploadCall.error[1].status = uploadCall.first[1].status
        /\ uploadCall.error[1].body = uploadCall.first[1].body

\* The raw download of the archive is no real container: its content type
\* declares an image, HTML or JSON, or its first bytes are no zip signature.
DeclaresNonArchive ==
    source.archive.contentType \in
        {<<"Image/", "jpeg">>, <<"Text/HTML", "; charset=utf-8">>, <<"application/json">>}
ZipSignatures == {<<80, 75, 3, 4>>, <<80, 75, 5, 6>>, <<80, 75, 7, 8>>}
DisguisedDownload == DeclaresNonArchive \/ source.archive.signature \notin ZipSignatures

\* C18: in every run against an archive whose raw download is no real
\* container, the download is never the container (it is not written, or
\* it is deleted), and the external tool only runs on a container
\* assembled from the pages.
C18_NoToolOnDisguisedDownload ==
    (source.chosen /\ resolution.pc # "idle" /\ DisguisedDownload) =>
        /\ resolution.container # "download"
        /\ resolution.pc \in {"tool", "finished"} => resolution.container = "assembled"

\* The second run against a cbz archive whose download is a JPEG cover has
\* run the tool on the assembled pages.
C18_Witness ==
    /\ source.chosen
    /\ source.archive.cbzLike
    /\ ~source.useExtraction
    /\ source.archive.contentType = <<"Image/", "jpeg">>
    /\ resolution.run = MaxRuns
    /\ resolution.pc = "finished"
    /\ resolution.container = "assembled"

\* out is base with every numeric entry raised by one and page 1 in
\* front, without repeated entries.
IsSingleShift(base, out) ==
    /\ out # <<>>
    /\ out[1] = Digits(1)
    /\ \A i, k \in DOMAIN out : out[i] = out[k] => i = k
    /\ {out[i] : i \in DOMAIN out} =
          {Digits(1)}
          \cup {Digits(base[i].n + 1) : i \in {k \in DOMAIN base : base[k].kind = "digits"}}
          \cup {Word(base[i].word) : i \in {k \in DOMAIN base : base[k].kind = "word"}}

\* C19: in a landscape run the resolved dontSplit is either the one the
\* run started with or a single cover-prepend adjustment of it ("2,4"
\* becomes "1,3,5"), whatever the path; and a container assembled from
\* the pages was handed the page list with the first page once more in
\* front, and the adjustment was made.
C19_CoverPrepOnce ==
    (resolution.pc # "idle" /\ resolution.settings.orientation = "landscape") =>
        /\ IF resolution.coverPrep
           THEN /\ IsSingleShift(resolution.base, resolution.settings.dontSplit)
                /\ resolution.base = <<Digits(2), Digits(4)>> =>
                      resolution.settings.dontSplit = <<Digits(1), Digits(3), Digits(5)>>
           ELSE resolution.settings.dontSplit = resolution.base
        /\ resolution.container = "assembled" =>
              /\ resolution.coverPrep
              /\ Len(resolution.handed) = resolution.cachedPages + 1
              /\ Cardinality({i \in DOMAIN resolution.handed : resolution.handed[i] = 1}) = 2

\* A landscape run with dontSplit "2,4" that assembled its pages and ran
\* the tool with dontSplit "1,3,5".
C19_Witness ==
    /\ resolution.pc = "finished"
    /\ resolution.settings.orientation = "landscape"
    /\ resolution.container = "assembled"
    /\ resolution.base = <<Digits(2), Digits(4)>>
    /\ resolution.settings.dontSplit = <<Digits(1), Digits(3), Digits(5)>>
    /\ Len(resolution.handed) >= 2

\* C20: a portrait run on an archive of N >= 1 pages hands the tool
\* splitMode nosplit, dontSplit "1,...,N", overlap and splitAll off and
\* sidewaysOverviews on, and no --overlap flag, whatever the request said.
C20_PortraitNoSplit ==
    (/\ resolution.pc = "finished"
     /\ resolution.settings.orientation = "portrait"
     /\ source.archive.pages >= 1) =>
        /\ resolution.settings.splitMode = "nosplit"
        /\ resolution.settings.dontSplit = [i \in 1..source.archive.pages |-> Digits(i)]
        /\ ~resolution.settings.overlap
        /\ ~resolution.settings.splitAll
        /\ resolution.settings.sidewaysOverviews
        /\ \A i \in DOMAIN resolution.args : resolution.args[i].flag # "--overlap"

\* A portrait run on the largest archive, whose pages had to be counted,
\* converted from the raw download.
C20_Witness ==
    /\ resolution.pc = "finished"
    /\ resolution.settings.orientation = "portrait"
    /\ source.archive.pages = MaxPages
    /\ source.archive.pagecount = 0
    /\ resolution.container = "download"
    /\ \E i \in DOMAIN resolution.args : resolution.args[i].flag = "--dont-split"

\* C21: the pages list of a job never gets shorter, and whenever totalPages
\* is set (> 0) the list is no longer than totalPages.
C21_PagesBounded ==
    /\ [](\A j \in Held :
             jobs[j].snapshot.totalPages > 0 =>
                 Len(jobs[j].snapshot.pages) <= jobs[j].snapshot.totalPages)
    /\ [][\A j \in Kept :
             Len(jobs'[j].snapshot.pages) >= Len(jobs[j].snapshot.pages)]_vars

\* A landscape job whose discovered list (cover put in front) is as long as
\* totalPages and whose last page was recorded before the first.
C21_Witness ==
    \E j \in Held :
        /\ Len(jobs[j].snapshot.pages) = MaxPages + 1
        /\ jobs[j].snapshot.totalPages = MaxPages + 1
        /\ jobs[j].snapshot.pages[MaxPages + 1].done
        /\ ~jobs[j].snapshot.pages[1].done

\* C22: convertedFrameVersion never decreases, it goes up by exactly one
\* with every frame event the registry accepts and changes in no other
\* way, and within one run no two frame events are emitted for the same
\* source frame key (path, modification time, size).
C22_FrameVersions ==
    /\ [][poller.pc # "idle" =>
             /\ poller'.version >= poller.version
             /\ (Len(poller'.log) > Len(poller.log) /\ poller.held) =>
                    poller'.version = poller.version + 1
             /\ poller'.version # poller.version =>
                    /\ poller'.version = poller.version + 1
                    /\ Len(poller'.log) = Len(poller.log) + 1]_vars
    /\ [](poller.pc # "idle" =>
             \A i, k \in DOMAIN poller.log : poller.log[i] = poller.log[k] => i = k)

\* The same frame file was emitted twice, rewritten in between, while a
\* frame with an emitted key was still in the workspace.
C22_Witness ==
    /\ poller.pc # "idle"
    /\ Len(poller.log) = 2
    /\ poller.log[1][1] = poller.log[2][1]
    /\ poller.version = 2
    /\ \E path \in FramePaths :
         /\ poller.files[path] # NoFile
         /\ FrameKey(path, poller.files[path]) \in poller.emitted

\* C23: in every state the error of a job is set exactly when its status
\* is failed, and its fileSize and its downloadName are set exactly when
\* its status is completed.
C23_TerminalFields ==
    \A j \in Held :
        /\ jobs[j].snapshot.error # Null <=> StatusOf(j) = "failed"
        /\ jobs[j].snapshot.fileSize # Null <=> StatusOf(j) = "completed"
        /\ jobs[j].snapshot.downloadName # Null <=> StatusOf(j) = "completed"

\* A job that failed in the tool stage after a frame had been accepted.
C23_Witness ==
    \E j \in Held :
        /\ StatusOf(j) = "failed"
        /\ jobs[j].snapshot.error = Some("errA")
        /\ jobs[j].snapshot.convertedFrameVersion > 0
        /\ jobs[j].snapshot.fileSize = Null

C25_DefaultArgs ==
    (mapping.pc = "returned" /\ mapping.settings = defaultConversionSettings) =>
        mapping.args = << <<Word("--overlap")>>, <<Word("--contrast-boost")>>, <<Digits(4)>>,
                          <<Word("--margin")>>, <<Digits(0)>>, <<Word("--clean")>> >>

\* The call on the default settings has returned its six arguments.
C25_Witness ==
    /\ mapping.pc = "returned"
    /\ mapping.settings = defaultConversionSettings
    /\ Len(mapping.args) = 6

\* C26: a take call made while the registry holds the job with status
\* completed (so the artifact was neither taken nor deleted by the TTL
\* callback) returns the artifact; no take call is answered with
\* unavailable while the snapshot says completed.
C26_CompletedIsTakeable ==
    /\ [][\A j \in JobIds :
             ( /\ takes'[j].calls # takes[j].calls
               /\ j \in Held
               /\ StatusOf(j) = "completed" )
             => /\ takes'[j].delivered = takes[j].delivered + 1
                /\ takes'[j].last = "artifact"]_vars
    /\ [](\A j \in JobIds : takes[j].last # "completed")

\* A first take found the job running, the second one got the artifact
\* while the TTL timer was armed.
C26_Witness ==
    \E j \in JobIds :
        /\ takes[j].calls = 2
        /\ takes[j].delivered = 1
        /\ takes[j].last = "artifact"
        /\ ttl[j] = "cancelled"
        /\ takes[j].holder \in Routes

\* C27: when a request of the upload route that took the artifact out of
\* the registry has been answered (upload succeeded, upload failed or
\* device URL refused), dispose has been invoked exactly once; it is never
\* invoked more than once.
C27_TakenIsDisposed ==
    uploadRoute.pc # "idle" =>
        /\ uploadRoute.disposeCalls <= 1
        /\ (uploadRoute.pc = "responded" /\ uploadRoute.taken) => uploadRoute.disposeCalls = 1

\* C28: in an upload-mode batch, the artifact of every completed conversion
\* whose upload is queued behind earlier uploads is still held by the
\* registry: the cleanup timer does not remove it before the upload reaches
\* the head of the chain.
C28_QueuedArtifactHeld ==
    uploadLane.pc = "running" =>
        \A a \in DOMAIN uploadLane.items :
            /\ uploadLane.items[a].state = "queued" => uploadLane.items[a].artifact = "held"
            /\ uploadLane.items[a].state # "refused"

\* C29: completedPages is the number of page records whose done flag is
\* set, whatever the order in which the page_done events of the concurrent
\* downloads arrive.  Stated for the jobs whose page list has been
\* discovered, so that there is one record for every page.
C29_CompletedPagesIsCount ==
    \A j \in DOMAIN jobs :
        LET s == jobs[j].snapshot
        IN  (s.totalPages > 0 /\ Len(s.pages) = s.totalPages) =>
                s.completedPages = Cardinality({i \in DOMAIN s.pages : s.pages[i].done})

\* C30: a page download is attempted at most 3 times; an attempt fails when
\* it throws or when the content type of its response contains text/html or
\* application/json; the wait before attempt k+1 is 300*k ms; the first
\* acceptable response is returned with no further attempt; after the third
\* failed attempt the last error is thrown and only then the job fails; a
\* response with an HTML or JSON content type is never returned.
C30_BoundedRetry ==
    pageFetch.pc # "idle" =>
        LET f == pageFetch
            made == Len(f.outcomes)
            Refused(contentType) ==
                \E i \in DOMAIN contentType :
                    toLowerCase(contentType[i]) \in {"text/html", "application/json"}
            Failed(k) ==
                \/ f.outcomes[k].kind = "throws"
                \/ f.outcomes[k].kind = "response" /\ Refused(f.outcomes[k].contentType)
        IN  /\ f.attempt \in 1..3 /\ made <= 3
            /\ f.waits = [k \in 1..(f.attempt - 1) |-> 300 * k]
            /\ \A k \in 1..(f.attempt - 1) : Failed(k)
            /\ f.pc = "request" => made = f.attempt - 1
            /\ f.pc = "sleep" => made = f.attempt /\ Failed(made) /\ f.timer = 300 * f.attempt
            /\ f.pc = "returned" =>
                  /\ made = f.attempt /\ ~Failed(made)
                  /\ f.result = Some(f.outcomes[made].contentType)
                  /\ ~Refused(f.result[1])
                  /\ f.thrown = Null /\ f.job = "running"
            /\ f.pc = "threw" =>
                  /\ made = 3 /\ f.attempt = 3 /\ Failed(3)
                  /\ f.thrown = f.lastError /\ f.thrown # Null
                  /\ f.thrown[1].attempt = 3
                  /\ f.outcomes[3].kind = "throws" => f.thrown[1].kind = f.outcomes[3].error
                  /\ f.outcomes[3].kind = "response" => f.thrown[1].kind = "content-type"
                  /\ f.result = Null
            /\ f.job = "failed" => f.pc = "threw"

\* The third attempt was answered with an HTML page after a thrown error and
\* a JSON answer, and the job has failed; or an image was returned on the
\* third attempt.
C30_Witness ==
    /\ pageFetch.pc \in {"threw", "returned"}
    /\ Len(pageFetch.outcomes) = 3
    /\ pageFetch.waits = <<300, 600>>
    /\ pageFetch.outcomes[1].kind = "throws"
    /\ pageFetch.outcomes[2] = [kind |-> "response", contentType |-> <<"application/json">>]
    /\ \/ /\ pageFetch.outcomes[3] =
                [kind |-> "response", contentType |-> <<"Text/HTML", "; charset=utf-8">>]
          /\ pageFetch.job = "failed"
       \/ /\ pageFetch.outcomes[3] = [kind |-> "response", contentType |-> <<"Image/", "jpeg">>]
          /\ pageFetch.pc = "returned"

\* C31: when the page list of the extraction step has one page or none, the
\* step does not assemble the container from it, in either orientation: no
\* download task is created and resolution goes on with the raw download
\* or a fallback.
C31_SparseListFallsThrough ==
    [][\A j \in JobIds :
          (conv[j].pc = "fetchPages" /\ conv'[j].pc # "fetchPages"
              /\ conv'[j].cachedPages \in {0, 1} /\ conv'[j].thrown = Null)
          => (conv'[j].pc = "direct" /\ conv'[j].tasks = <<>>)]_vars

\* C32: cbz_ready is emitted at most once per assembly, after a page_done
\* event for every input page, and with a packed count equal to the number
\* of input pages; when the packed count differs, the assembly throws the
\* mismatch error and cbz_ready is not emitted.
C32_CbzReadyOnce ==
    assembly.pc # "idle" =>
        LET events == assembly.events
            ready == {p \in DOMAIN events : events[p].type = "cbz_ready"}
        IN  /\ Cardinality(ready) <= 1
            /\ \A p \in ready :
                  /\ events[p].total = assembly.pages
                  /\ assembly.archived = assembly.pages
                  /\ \A i \in 1..assembly.pages :
                        \E q \in 1..(p - 1) :
                            events[q].type = "page_done" /\ events[q].index = i
            /\ (assembly.pc \in {"done", "threw"} /\ assembly.files # <<>>
                    /\ assembly.archived # assembly.pages)
                 => (assembly.pc = "threw" /\ ready = {}
                        /\ assembly.error \in {"mismatch", "zip"})
            /\ assembly.error = "mismatch" => assembly.archived # assembly.pages

\* Two pages, the second written first, the container packed and announced.
C32_Witness ==
    /\ assembly.pc = "done"
    /\ assembly.pages = 2
    /\ Len(assembly.events) = 3
    /\ assembly.events[1].type = "page_done" /\ assembly.events[1].index = 2
    /\ assembly.events[3] = CbzReadyEvent(2)

\* min(0.7, 0.7 * completedPages / totalPages) of a snapshot whose total is known.
PageFraction(s) == Min(Progress070, (s.completedPages * Progress070) \div s.totalPages)

\* C33, as stated: while a job is running, its total page count is known
\* and its stage is not yet the tool stage, progress equals
\* min(0.7, 0.7 * completedPages / totalPages).
C33_ProgressIsPageFraction ==
    \A j \in Held :
        LET s == jobs[j].snapshot
        IN  (s.status = "running" /\ s.totalPages > 0 /\ s.stage # "cbz2xtc")
                => s.progress = PageFraction(s)

\* C33, amended: in those states progress is never below the page
\* fraction, and every update of the record leaves progress at the larger
\* of its value before and the page fraction after the update.
C33_ProgressIsMaxOfPageFraction ==
    /\ [](\A j \in Held :
            LET s == jobs[j].snapshot
            IN  (s.status = "running" /\ s.totalPages > 0 /\ s.stage # "cbz2xtc")
                    => s.progress >= PageFraction(s))
    /\ [][\A j \in Kept :
            LET s == jobs[j].snapshot
                t == jobs'[j].snapshot
            IN  (t.status = "running" /\ t.totalPages > 0 /\ t.stage # "cbz2xtc" /\ t # s)
                    => t.progress = Max(s.progress, PageFraction(t))]_vars

\* A running job before the tool stage with one of its two pages written:
\* the page fraction, 0.35, has overtaken the milestone 0.1.
C33_Witness ==
    \E j \in Held :
        LET s == jobs[j].snapshot
        IN  /\ s.status = "running" /\ s.stage = "building-input"
            /\ s.totalPages = 2 /\ s.completedPages = 1
            /\ s.progress = Progress035

\* C34: the stage milestones are lower bounds on the progress of a running
\* job: at least 0.1; at least 0.85 and below 1 in the tool stage, whatever
\* the page fraction; at least 0.35 in the archive-download stage when no
\* page count is known, and from then on while the job runs.
C34_StageMilestones ==
    /\ [](\A j \in Held :
            LET s == jobs[j].snapshot
            IN  s.status = "running" =>
                  /\ s.progress >= Progress010
                  /\ s.stage = "cbz2xtc" =>
                        (s.progress >= Progress085 /\ s.progress < ProgressOne)
                  /\ (s.stage = "archive-download" /\ s.totalPages = 0) =>
                        s.progress >= Progress035)
    /\ [][\A j \in Kept :
            LET s == jobs[j].snapshot
                t == jobs'[j].snapshot
            IN  (s.status = "running" /\ t.status = "running"
                    /\ s.progress >= Progress035)
                  => t.progress >= Progress035]_vars

\* A running job in the tool stage that reached it through the raw
\* download, with no page count and progress 0.85.
C34_Witness ==
    \E j \in Held :
        LET s == jobs[j].snapshot
        IN  /\ s.status = "running" /\ s.stage = "cbz2xtc"
            /\ s.totalPages = 0 /\ s.progress = Progress085
            /\ conv[j].pc = "tool"

\* C35: when resolution turns to the page assembly in a fallback step (the
\* raw download looks like no archive, the downloaded file is no zip, or
\* the extension cannot be downloaded directly) and the page list has no
\* page, the run fails: no container is built and the tool is not run.
C35_EmptyFallbackIsFatal ==
    /\ [][(resolution.pc = "input" /\ resolution'.pc # "input"
              /\ resolution'.container # "download" /\ resolution'.cachedPages = 0)
          => (resolution'.pc = "failed" /\ resolution'.container = "none"
                 /\ resolution'.args = <<>>)]_vars
    /\ [](resolution.pc = "failed" =>
            (resolution.container = "none" /\ resolution.args = <<>>
                /\ resolution.cachedPages = 0))
    /\ [](resolution.pc \in {"tool", "finished"} /\ resolution.container = "assembled"
            => resolution.cachedPages > 0)
    /\ [][resolution.pc = "failed" => resolution'.pc \in {"failed", "extraction", "input"}]_vars

\* A run on a cbz archive without pages whose raw download was answered
\* with an HTML page has failed.
C35_Witness ==
    /\ resolution.pc = "failed"
    /\ source.archive.cbzLike
    /\ source.archive.pages = 0
    /\ looksLikeCoverOrNonArchive(source.archive.contentType)

\* The argument vector of the returned call holds the flag.
Passed(name) == \E i \in DOMAIN mapping.args : mapping.args[i] = <<Word(name)>>

\* The five switches that depend on their field alone, and the last argument.
PlainSwitches ==
    /\ Passed("--no-dither") <=> mapping.settings.noDither
    /\ Passed("--split-all") <=> mapping.settings.splitAll
    /\ Passed("--include-overviews") <=> mapping.settings.includeOverviews
    /\ Passed("--sideways-overviews") <=> mapping.settings.sidewaysOverviews
    /\ Passed("--pad-black") <=> mapping.settings.padBlack
    /\ mapping.args # <<>>
    /\ mapping.args[Len(mapping.args)] = <<Word("--clean")>>

SupervisionSettled == poller.pc \in {"errored", "closed"}

\* C37: once the supervision of the tool has settled, by the exit of the
\* process or by a spawn error, the poll timer is stopped and no new poll of
\* the workspace starts.
C37_NoPollAfterSettled ==
    [][SupervisionSettled =>
          /\ ~poller.timer
          /\ poller'.polling => poller.polling]_vars

\* The run has finished with the archive: the worker is done with it and
\* no upload of it is waiting or running.
IsAccounted(a) ==
    archives[a].at = "done" /\ archives[a].upload \notin {"queued", "uploading"}

\* The archives the run has finished with.
Accounted == {a \in DOMAIN archives : IsAccounted(a)}

\* C38: the workers pick the selected archives up in order, each once and
\* none skipped; every archive the run has finished with is counted once,
\* as completed or as failed - in upload mode as completed exactly when its
\* upload succeeded, as failed when its conversion or its upload failed -
\* and at the end of the batch that is every selected archive.
C38_BatchAccounting ==
    batch.phase \in {"workers", "uploads", "done"} =>
        /\ \A a \in DOMAIN archives :
              /\ archives[a].starts = (IF a <= batch.nextIndex THEN 1 ELSE 0)
              /\ archives[a].starts = 0 <=> archives[a].at = "pending"
              /\ archives[a].failures <= 1
              /\ archives[a].failures = 1 => IsAccounted(a)
              /\ (batch.mode = "upload" /\ IsAccounted(a)) =>
                    /\ archives[a].failures = 0 <=> archives[a].upload = "completed"
                    /\ (archives[a].job # "completed" \/ archives[a].upload = "failed")
                          => archives[a].failures = 1
        /\ batch.failed =
              Cardinality({a \in DOMAIN archives : archives[a].failures = 1})
        /\ batch.completed + batch.failed = Cardinality(Accounted)
        /\ batch.phase = "done" =>
              /\ \A a \in DOMAIN archives : IsAccounted(a)
              /\ batch.completed + batch.failed = Len(archives)

\* A finished upload batch of more archives than workers: the last archive
\* was converted and uploaded, an earlier conversion failed and an earlier
\* upload failed.
C38_Witness ==
    /\ batch.phase = "done"
    /\ batch.mode = "upload"
    /\ Len(archives) > BATCH_MAX_PARALLEL
    /\ archives[Len(archives)].upload = "completed"
    /\ batch.completed >= 2
    /\ \E a, b \in DOMAIN archives :
          /\ archives[a].job = "failed"
          /\ archives[b].upload = "failed"

\* C39: a facet or tag-suggestion response served from the cache holds data
\* fetched through the connection of the moment, never through the one
\* before an update of the connection settings.
C39_CacheOfCurrentConnection ==
    (facets.pc = "serving" /\ facets.served # Null) =>
        (facets.served[1].from = "cache" =>
            facets.served[1].data = facets.served[1].version)

\* C40: every cache object holds each archive at most once and has fetched
\* the index ranges in order without a gap: its archives are the first
\* nextStart archives of the server, in title order.
C40_TitleCacheContiguous ==
    titleCache.pc = "serving" =>
        \A c \in DOMAIN titleCache.objects :
            LET cache == titleCache.objects[c]
            IN  /\ cache.pushed = [k \in 1..cache.nextStart |-> k]
                /\ cache.nextStart <= titleCache.total

====
